---- MODULE Spec2Model ----
(***************************************************************************)
(* A model of hpproj: the projection of HEALPix maps onto a planar grid    *)
(* (hpproj/hp_helper.py) and the CutSky container that cuts several maps   *)
(* at once (hpproj/cutsky.py).                                             *)
(*                                                                         *)
(* The sky is a finite lattice of directions.  A longitude is an integer   *)
(* in 0..Deg360-1, a latitude an integer in -(Deg90-1)..(Deg90-1), both in *)
(* the same unit of 90/(2*NsideMax) degrees; a colatitude Deg90-lat is the *)
(* number of the iso-latitude ring of the finest pixelisation.  Floating   *)
(* point not-a-number is the value NaN.                                    *)
(***************************************************************************)
EXTENDS Integers, Sequences, FiniteSets, TLC

VARIABLES
    hp_header,      \* projection: the header of the healpix map
    hp_data,        \* projection: the pixel data of the healpix map
    wcs,            \* projection: the target grid
    shape_out,      \* projection: the shape (n_y, n_x) of the output
    out,            \* projection: what the last call returned or raised
    key_maps,       \* grouping key: two hp_map tuples
    key_out,        \* grouping key: what hpmap_key returned for each
    ctor_args,      \* CutSky: the arguments of the constructor
    self,           \* CutSky: the instance, once constructed
    ret,            \* CutSky: the last call, what it returned or raised,
                    \* and the trace of what it did
    calls           \* CutSky: the method calls made on the instance so far

vars == <<hp_header, hp_data, wcs, shape_out, out, key_maps, key_out,
          ctor_args, self, ret, calls>>

projVars == <<hp_header, hp_data, wcs, shape_out, out>>
keyVars == <<key_maps, key_out>>
cutVars == <<ctor_args, self, ret, calls>>

(***************************************************************************)
(* Bounds of the model.                                                    *)
(***************************************************************************)
\* the finest pixelisation has NSIDE = 2^MaxOrder
MaxOrder == 1
\* the output shapes have at most MaxSide rows and MaxSide columns
MaxSide == 2

(***************************************************************************)
(* Python values.                                                          *)
(***************************************************************************)
\* np.nan, the fill value of the projected maps
NaN == -1000
\* None, also what dict.get gives for a missing key
None == "None"

IsNaN(x) == x = NaN

\* the outcome of a call: a returned value or a raised exception
Return(v) == [exc |-> "", val |-> v]
Raise(e) == [exc |-> e]
Raised(r) == r.exc # ""

\* header.get(key, None)
Get(header, key) == IF key \in DOMAIN header THEN header[key] ELSE None

\* bool(value) of a string or None
Truthy(s) == s # None /\ s # ""

\* a lower() that leaves the string as it is written
Lower_asis(s) == s

\* str.lower() on the spellings the model uses
Lower(s) ==
    CASE s = "RING" -> "ring"
      [] s = "Ring" -> "ring"
      [] s = "NESTED" -> "nested"
      [] s = "Nested" -> "nested"
      [] s = "Unknown" -> "unknown"
      [] s = "NEST" -> "nest"
      [] s = "G" -> "g"
      [] s = "Galactic" -> "galactic"
      [] s = "GALACTIC" -> "galactic"
      [] s = "C" -> "c"
      [] s = "EQ" -> "eq"
      [] s = "Equatorial" -> "equatorial"
      [] s = "E" -> "e"
      [] s = "ECLIPTIC" -> "ecliptic"
      [] OTHER -> s

(***************************************************************************)
(* The HEALPix pixelisation (healpy).                                      *)
(***************************************************************************)
RECURSIVE Pow2(_)
Pow2(k) == IF k = 0 THEN 1 ELSE 2 * Pow2(k - 1)

NsideMax == Pow2(MaxOrder)
Nsides == {Pow2(k) : k \in 0..MaxOrder}

\* a right angle and a full turn, in lattice units
Deg90 == 2 * NsideMax
Deg360 == 4 * Deg90

Lons == 0..(Deg360 - 1)
Lats == (1 - Deg90)..(Deg90 - 1)

\* hp.nside2npix
Nside2Npix(nside) == 12 * nside * nside

\* hp.npix2nside: raises for a length that is not 12 * nside^2
Npix2Nside(npix) ==
    IF \E n \in Nsides : Nside2Npix(n) = npix
    THEN Return(CHOOSE n \in Nsides : Nside2Npix(n) = npix)
    ELSE Raise("ValueError")

\* the bits of v at even positions, packed
RECURSIVE CompressBits(_)
CompressBits(v) == IF v = 0 THEN 0 ELSE (v % 2) + 2 * CompressBits(v \div 4)

jrll == <<2, 2, 2, 2, 3, 3, 3, 3, 4, 4, 4, 4>>
jpll == <<1, 3, 5, 7, 0, 2, 4, 6, 1, 3, 5, 7>>

\* the number of pixels per quadrant of ring jr, and the pixels before it
RingNr(nside, jr) ==
    IF jr < nside THEN jr ELSE IF jr > 3 * nside THEN 4 * nside - jr ELSE nside

RingBefore(nside, jr) ==
    IF jr < nside THEN 2 * jr * (jr - 1)
    ELSE IF jr > 3 * nside
         THEN Nside2Npix(nside) - 2 * (RingNr(nside, jr) + 1) * RingNr(nside, jr)
         ELSE 2 * nside * (nside - 1) + (jr - nside) * 4 * nside

\* hp.nest2ring
Nest2Ring(nside, pix) ==
    LET face == pix \div (nside * nside)
        rem == pix % (nside * nside)
        ix == CompressBits(rem)
        iy == CompressBits(rem \div 2)
        jr == jrll[face + 1] * nside - ix - iy - 1
        nr == RingNr(nside, jr)
        kshift == IF nside <= jr /\ jr <= 3 * nside THEN (jr - nside) % 2 ELSE 0
        jp0 == (jpll[face + 1] * nr + ix - iy + 1 + kshift) \div 2
        jp == IF jp0 > 4 * nside THEN jp0 - 4 * nside
              ELSE IF jp0 < 1 THEN jp0 + 4 * nside ELSE jp0
    IN  RingBefore(nside, jr) + jp - 1

\* hp.ring2nest at the finest pixelisation
Ring2NestMax ==
    [r \in 0..(Nside2Npix(NsideMax) - 1) |->
        CHOOSE n \in 0..(Nside2Npix(NsideMax) - 1) : Nest2Ring(NsideMax, n) = r]

\* the pixel of the finest pixelisation, in RING ordering, that holds the
\* direction of colatitude theta and longitude phi
FinestRingPix(theta, phi) ==
    RingBefore(NsideMax, theta) + (phi * RingNr(NsideMax, theta)) \div Deg90

\* hp.ang2pix(nside, theta, phi, nest): the pixel of a coarser pixelisation
\* is the parent, in NESTED ordering, of the pixel of the finest one
Ang2Pix(nside, theta, phi, nest) ==
    LET scale == NsideMax \div nside
        parent == Ring2NestMax[FinestRingPix(theta, phi)] \div (scale * scale)
    IN  IF nest THEN parent ELSE Nest2Ring(nside, parent)

(***************************************************************************)
(* Sky frames (astropy.coordinates) and the frame names of wcs_helper.     *)
(***************************************************************************)
VALID_GALACTIC == {"galactic", "g"}
VALID_EQUATORIAL == {"celestial2000", "equatorial", "eq", "c", "q", "fk5", "icrs"}

\* wcs_helper.equiv_celestial: the frame of a frame name, a frame being
\* written as its name; ecliptic and unknown names are rejected
equiv_celestial(frame) ==
    IF Lower(frame) \in VALID_GALACTIC THEN Return("galactic")
    ELSE IF Lower(frame) \in VALID_EQUATORIAL THEN Return("icrs")
    ELSE Raise("ValueError")

\* BaseCoordinateFrame.is_equivalent_frame
is_equivalent_frame(frame_a, frame_b) == frame_a = frame_b

\* frame.realize_frame(lon, lat).transform_to(other): a fixed bijection of
\* the lattice from Galactic to ICRS coordinates, and its inverse
transform_to(frame_from, frame_to, lon, lat) ==
    IF IsNaN(lon) \/ IsNaN(lat) THEN <<NaN, NaN>>
    ELSE IF frame_from = frame_to THEN <<lon, lat>>
    ELSE IF frame_from = "galactic"
         THEN <<(lon + Deg90) % Deg360, 0 - lat>>
         ELSE <<(lon + Deg360 - Deg90) % Deg360, 0 - lat>>

(***************************************************************************)
(* The target grid (astropy.wcs.WCS): the frame of its axes, the sky       *)
(* position crval of its reference pixel crpix (numbered from 1, as FITS   *)
(* does) and the step cdelt between pixels.                                *)
(***************************************************************************)
\* wcs_utils.wcs_to_celestial_frame
wcs_to_celestial_frame(w) == w.frame

\* WCS.wcs_pix2world(x, y, origin) for one pixel: <<lon, lat>>, both NaN
\* where the pixel lies beyond a pole, outside of the projected area
wcs_pix2world(w, x, y, origin) ==
    LET dx == x + (1 - origin) - w.crpix[1]
        dy == y + (1 - origin) - w.crpix[2]
        lat == w.crval[2] + dy * w.cdelt
        lon == (w.crval[1] - dx * w.cdelt) % Deg360
    IN  IF lat \in Lats THEN <<lon, lat>> ELSE <<NaN, NaN>>

\* np.indices(shape): the pixels <<y, x>> of an array, and their row-major
\* order, the order of a boolean selection array[mask]
Pixels(shape) == (0..(shape[1] - 1)) \X (0..(shape[2] - 1))

RowMajor(shape) ==
    [k \in 1..(shape[1] * shape[2]) |->
        <<(k - 1) \div shape[2], (k - 1) % shape[2]>>]

\* array[mask] as a sequence
Masked(array, mask, shape) ==
    LET sel == SelectSeq(RowMajor(shape), LAMBDA p : mask[p])
    IN  [k \in 1..Len(sel) |-> array[sel[k]]]

\* the place of pixel p among the selected pixels
Rank(p, mask, shape) ==
    Cardinality({k \in 1..(p[1] * shape[2] + p[2] + 1) : mask[RowMajor(shape)[k]]})

(***************************************************************************)
(* hp_helper.py                                                            *)
(***************************************************************************)
\* an hp_celestial that takes a header without COORDSYS as Galactic
hp_celestial_default(header) ==
    LET coordsys == Get(header, "COORDSYS")
    IN  IF Truthy(coordsys) THEN equiv_celestial(coordsys)
        ELSE Return("galactic")

hp_celestial(header) ==
    LET coordsys == Get(header, "COORDSYS")
    IN  IF Truthy(coordsys) THEN equiv_celestial(coordsys)
        ELSE Raise("ValueError")

hp_is_nest(header) ==
    LET ordering == Get(header, "ORDERING")
    IN  IF ~Truthy(ordering) THEN Raise("ValueError")
        ELSE IF Lower(ordering) \in {"nested", "nest"} THEN Return(TRUE)
        ELSE IF Lower(ordering) = "ring" THEN Return(FALSE)
        ELSE Raise("ValueError")

\* frame_from.realize_frame(alon, alat).transform_to(frame_to) on arrays
ConvertArrays(alon, alat, frame_from, frame_to) ==
    LET coords == [p \in DOMAIN alon |->
                      transform_to(frame_from, frame_to, alon[p], alat[p])]
    IN  [alon |-> [p \in DOMAIN alon |-> coords[p][1]],
         alat |-> [p \in DOMAIN alon |-> coords[p][2]],
         converted |-> TRUE]

\* a rotate_frame that compares COORDSYS as written with the frame name
rotate_frame_raw(alon, alat, header, w) ==
    LET frame_in == hp_celestial(header)
        frame_out == wcs_to_celestial_frame(w)
    IN  IF Raised(frame_in) THEN frame_in
        ELSE IF Get(header, "COORDSYS") # frame_out
        THEN Return(ConvertArrays(alon, alat, frame_out, frame_in.val))
        ELSE Return([alon |-> alon, alat |-> alat, converted |-> FALSE])

\* a rotate_frame that transforms from the frame of the map to that of the
\* grid
rotate_frame_reversed(alon, alat, header, w) ==
    LET frame_in == hp_celestial(header)
        frame_out == wcs_to_celestial_frame(w)
    IN  IF Raised(frame_in) THEN frame_in
        ELSE IF ~is_equivalent_frame(frame_in.val, frame_out)
        THEN Return(ConvertArrays(alon, alat, frame_in.val, frame_out))
        ELSE Return([alon |-> alon, alat |-> alat, converted |-> FALSE])

\* rotate_frame: the arrays, changed of frame if needed; converted tells
\* whether the coordinate transform was done
rotate_frame(alon, alat, header, w) ==
    LET frame_in == hp_celestial(header)
        frame_out == wcs_to_celestial_frame(w)
    IN  IF Raised(frame_in) THEN frame_in
        ELSE IF ~is_equivalent_frame(frame_in.val, frame_out)
        THEN Return(ConvertArrays(alon, alat, frame_out, frame_in.val))
        ELSE Return([alon |-> alon, alat |-> alat, converted |-> FALSE])

\* the sky coordinates of the pixel centres of the grid: the first pixel
\* has its centre at (0, 0)
PixelCentres(w, shape) ==
    [p \in Pixels(shape) |-> wcs_pix2world(w, p[2], p[1], 0)]

\* 90 - alat and np.radians, on one value
Colatitude(lat) == IF IsNaN(lat) THEN NaN ELSE Deg90 - lat

\* an ang2pix that takes the finest pixelisation whatever nside is
ang2pix_finest(nside, theta, phi, nest) ==
    IF nside \notin Nsides THEN Raise("ValueError")
    ELSE Return([k \in DOMAIN theta |-> Ang2Pix(NsideMax, theta[k], phi[k], nest)])

\* hp.ang2pix on arrays
ang2pix(nside, theta, phi, nest) ==
    IF nside \notin Nsides THEN Raise("ValueError")
    ELSE Return([k \in DOMAIN theta |-> Ang2Pix(nside, theta[k], phi[k], nest)])

\* an hp_to_wcs_ipx that takes every map as RING ordered
hp_to_wcs_ipx_ring(header, w, shape) ==
    LET centres == PixelCentres(w, shape)
        alon == [p \in Pixels(shape) |-> centres[p][1]]
        alat == [p \in Pixels(shape) |-> centres[p][2]]
        mask == [p \in Pixels(shape) |-> ~(IsNaN(alon[p]) \/ IsNaN(alat[p]))]
        rot == rotate_frame(alon, alat, header, w)
        phi == rot.val.alon
        theta == [p \in Pixels(shape) |-> Colatitude(rot.val.alat[p])]
        nest == hp_is_nest(header)
        ipix == ang2pix(header["NSIDE"], Masked(theta, mask, shape),
                        Masked(phi, mask, shape), FALSE)
    IN  IF "NSIDE" \notin DOMAIN header THEN Raise("KeyError")
        ELSE IF Raised(rot) THEN rot
        ELSE IF Raised(nest) THEN nest
        ELSE IF Raised(ipix) THEN ipix
        ELSE Return([mask |-> mask, ipix |-> ipix.val])

hp_to_wcs_ipx(header, w, shape) ==
    LET centres == PixelCentres(w, shape)
        alon == [p \in Pixels(shape) |-> centres[p][1]]
        alat == [p \in Pixels(shape) |-> centres[p][2]]
        mask == [p \in Pixels(shape) |-> ~(IsNaN(alon[p]) \/ IsNaN(alat[p]))]
        rot == rotate_frame(alon, alat, header, w)
        phi == rot.val.alon
        theta == [p \in Pixels(shape) |-> Colatitude(rot.val.alat[p])]
        nest == hp_is_nest(header)
        ipix == ang2pix(header["NSIDE"], Masked(theta, mask, shape),
                        Masked(phi, mask, shape), nest.val)
    IN  IF "NSIDE" \notin DOMAIN header THEN Raise("KeyError")
        ELSE IF Raised(rot) THEN rot
        ELSE IF Raised(nest) THEN nest
        ELSE IF Raised(ipix) THEN ipix
        ELSE Return([mask |-> mask, ipix |-> ipix.val])

\* hp.get_interp_val for one direction: the mean of the pixel of the
\* direction and of the pixel of the next direction in longitude
InterpVal(data, nside, theta, phi, nest) ==
    (data[Ang2Pix(nside, theta, phi, nest)]
     + data[Ang2Pix(nside, theta, (phi + 1) % Deg360, nest)]) \div 2

\* hp.get_interp_val on arrays; the pixelisation is that of len(data)
get_interp_val(data, theta, phi, nest) ==
    LET nside == Npix2Nside(Cardinality(DOMAIN data))
    IN  IF Raised(nside) THEN nside
        ELSE Return([k \in DOMAIN theta |->
                        InterpVal(data, nside.val, theta[k], phi[k], nest)])

\* a projected map left at zero, not NaN, outside of the projected area
Filled_zero(values, mask, shape) ==
    [p \in Pixels(shape) |->
        IF mask[p] THEN values[Rank(p, mask, shape)] ELSE 0]

\* proj_map[mask] = values, then proj_map.filled()
Filled(values, mask, shape) ==
    [p \in Pixels(shape) |->
        IF mask[p] THEN values[Rank(p, mask, shape)] ELSE NaN]

\* an hp_to_wcs that takes every order other than 0 as the bilinear one
hp_to_wcs_lenient(data, header, w, shape, order) ==
    LET centres == PixelCentres(w, shape)
        alon == [p \in Pixels(shape) |-> centres[p][1]]
        alat == [p \in Pixels(shape) |-> centres[p][2]]
        mask == [p \in Pixels(shape) |-> ~(IsNaN(alon[p]) \/ IsNaN(alat[p]))]
        rot == rotate_frame(alon, alat, header, w)
        phi == rot.val.alon
        theta == [p \in Pixels(shape) |-> Colatitude(rot.val.alat[p])]
        nside == Npix2Nside(Cardinality(DOMAIN data))
        nest == hp_is_nest(header)
        ipix == ang2pix(nside.val, Masked(theta, mask, shape),
                        Masked(phi, mask, shape), nest.val)
        interp == get_interp_val(data, Masked(theta, mask, shape),
                                 Masked(phi, mask, shape), nest.val)
    IN  IF Raised(rot) THEN rot
        ELSE IF order = 0
        THEN IF Raised(nside) THEN nside
             ELSE IF Raised(nest) THEN nest
             ELSE IF Raised(ipix) THEN ipix
             ELSE Return(Filled([k \in DOMAIN ipix.val |-> data[ipix.val[k]]],
                                mask, shape))
        ELSE IF Raised(nest) THEN nest
             ELSE IF Raised(interp) THEN interp
             ELSE Return(Filled(interp.val, mask, shape))

hp_to_wcs(data, header, w, shape, order) ==
    LET centres == PixelCentres(w, shape)
        alon == [p \in Pixels(shape) |-> centres[p][1]]
        alat == [p \in Pixels(shape) |-> centres[p][2]]
        mask == [p \in Pixels(shape) |-> ~(IsNaN(alon[p]) \/ IsNaN(alat[p]))]
        rot == rotate_frame(alon, alat, header, w)
        phi == rot.val.alon
        theta == [p \in Pixels(shape) |-> Colatitude(rot.val.alat[p])]
        nside == Npix2Nside(Cardinality(DOMAIN data))
        nest == hp_is_nest(header)
        ipix == ang2pix(nside.val, Masked(theta, mask, shape),
                        Masked(phi, mask, shape), nest.val)
        interp == get_interp_val(data, Masked(theta, mask, shape),
                                 Masked(phi, mask, shape), nest.val)
    IN  IF Raised(rot) THEN rot
        ELSE IF order = 0
        THEN IF Raised(nside) THEN nside
             ELSE IF Raised(nest) THEN nest
             ELSE IF Raised(ipix) THEN ipix
             ELSE Return(Filled([k \in DOMAIN ipix.val |-> data[ipix.val[k]]],
                                mask, shape))
        ELSE IF order = 1
        THEN IF Raised(nest) THEN nest
             ELSE IF Raised(interp) THEN interp
             ELSE Return(Filled(interp.val, mask, shape))
        ELSE Raise("ValueError")

\* hpmap_key: "%s_%s_%s" % (NSIDE, ORDERING, frame name)
hpmap_key(hp_map) ==
    LET i_header == hp_map[3]
        frame == hp_celestial(i_header)
    IN  IF "NSIDE" \notin DOMAIN i_header \/ "ORDERING" \notin DOMAIN i_header
        THEN Raise("KeyError")
        ELSE IF Raised(frame) THEN frame
        ELSE Return(ToString(i_header["NSIDE"]) \o "_" \o i_header["ORDERING"]
                    \o "_" \o frame.val)

(***************************************************************************)
(* The inputs the calls are made on.                                       *)
(***************************************************************************)
Orderings == {"RING", "ring", "NESTED", "nest", "spiral"}
Coordsys == {"G", "Galactic", "C", "EQ", "ecliptic"}

\* healpix headers: ORDERING and COORDSYS may be missing
Headers ==
    UNION { [NSIDE : Nsides, ORDERING : Orderings, COORDSYS : Coordsys],
            [NSIDE : Nsides, COORDSYS : Coordsys],
            [NSIDE : Nsides, ORDERING : Orderings] }

\* pixel data: a uniform map and a map whose every pixel differs, for each
\* pixelisation, and an array whose length is that of no pixelisation
Uniform(npix, v) == [i \in 0..(npix - 1) |-> v]
Ramp(npix) == [i \in 0..(npix - 1) |-> 100 + i]

Datas ==
    {Uniform(Nside2Npix(n), 1) : n \in Nsides}
    \cup {Ramp(Nside2Npix(n)) : n \in Nsides}
    \cup {Uniform(5, 1)}

\* target grids: at the equator and next to each pole
Centres == {<<0, 0>>, <<3, Deg90 - 1>>, <<Deg360 - 1, 1 - Deg90>>}

Grids ==
    [frame : {"galactic", "icrs"}, crval : Centres,
     crpix : {<<1, 1>>, <<2, 2>>}, cdelt : {1}]

Shapes == (1..MaxSide) \X (1..MaxSide)

\* the sampling orders asked for: the two supported ones, one above and one
\* below
SamplingOrders == {-1, 0, 1, 2}

NoCall == [op |-> "none"]

(***************************************************************************)
(* The projection of one map: hp_to_wcs_ipx, hp_to_wcs and rotate_frame    *)
(* called on every header, data array, grid and shape.                     *)
(***************************************************************************)
InitProj ==
    /\ hp_header \in Headers
    /\ hp_data \in Datas
    /\ wcs \in Grids
    /\ shape_out \in Shapes
    /\ out = NoCall
    /\ key_maps = <<>>
    /\ key_out = <<>>
    /\ ctor_args = None
    /\ self = None
    /\ ret = NoCall
    /\ calls = <<>>

CallHpToWcsIpx ==
    /\ out = NoCall
    /\ out' = [op |-> "hp_to_wcs_ipx",
               res |-> hp_to_wcs_ipx(hp_header, wcs, shape_out)]
    /\ UNCHANGED <<hp_header, hp_data, wcs, shape_out, keyVars, cutVars>>

CallHpToWcs ==
    \E order \in SamplingOrders :
        /\ out = NoCall
        /\ out' = [op |-> "hp_to_wcs", order |-> order,
                   res |-> hp_to_wcs(hp_data, hp_header, wcs, shape_out, order)]
        /\ UNCHANGED <<hp_header, hp_data, wcs, shape_out, keyVars, cutVars>>

CallRotateFrame ==
    LET centres == PixelCentres(wcs, shape_out)
        alon == [p \in Pixels(shape_out) |-> centres[p][1]]
        alat == [p \in Pixels(shape_out) |-> centres[p][2]]
    IN  /\ out = NoCall
        /\ out' = [op |-> "rotate_frame",
                   res |-> rotate_frame(alon, alat, hp_header, wcs)]
        /\ UNCHANGED <<hp_header, hp_data, wcs, shape_out, keyVars, cutVars>>

NextProj == CallHpToWcsIpx \/ CallHpToWcs \/ CallRotateFrame

SpecProj == InitProj /\ [][NextProj]_vars

(***************************************************************************)
(* The reading of one header: hp_is_nest and hp_celestial called on every  *)
(* spelling of ORDERING and COORDSYS, either of them missing or empty.     *)
(***************************************************************************)
OrderingSpellings ==
    {"ring", "RING", "Ring", "nested", "NESTED", "Nested", "nest", "NEST",
     "spiral", "Unknown", ""}
CoordsysSpellings ==
    {"G", "g", "Galactic", "GALACTIC", "galactic",
     "C", "EQ", "Equatorial", "celestial2000", "fk5", "icrs",
     "ecliptic", "ECLIPTIC", "e", "E", "spiral", ""}

HeaderSpellings ==
    UNION { [ORDERING : OrderingSpellings, COORDSYS : CoordsysSpellings],
            [ORDERING : OrderingSpellings],
            [COORDSYS : CoordsysSpellings],
            {<<>>} }

InitHeader ==
    /\ hp_header \in HeaderSpellings
    /\ hp_data = None
    /\ wcs = None
    /\ shape_out = None
    /\ out = NoCall
    /\ key_maps = <<>>
    /\ key_out = <<>>
    /\ ctor_args = None
    /\ self = None
    /\ ret = NoCall
    /\ calls = <<>>

CallHpIsNest ==
    /\ out = NoCall
    /\ out' = [op |-> "hp_is_nest", res |-> hp_is_nest(hp_header)]
    /\ UNCHANGED <<hp_header, hp_data, wcs, shape_out, keyVars, cutVars>>

CallHpCelestial ==
    /\ out = NoCall
    /\ out' = [op |-> "hp_celestial", res |-> hp_celestial(hp_header)]
    /\ UNCHANGED <<hp_header, hp_data, wcs, shape_out, keyVars, cutVars>>

NextHeader == CallHpIsNest \/ CallHpCelestial

SpecHeader == InitHeader /\ [][NextHeader]_vars

(***************************************************************************)
(* The radial profile of a map around a position: hp_to_profile.           *)
(***************************************************************************)
\* the most bins of a profile
MaxBins == 3

\* the centre of each pixel, in RING ordering: a direction of the pixel
PixelCentreTable ==
    [n \in Nsides |->
        [pix \in 0..(Nside2Npix(n) - 1) |->
            CHOOSE d \in Lons \X Lats : Ang2Pix(n, Deg90 - d[2], d[1], FALSE) = pix]]

\* SkyCoord.separation, in lattice units
Separation(a, b) ==
    LET dlon == IF a[1] >= b[1] THEN a[1] - b[1] ELSE b[1] - a[1]
        dlat == IF a[2] >= b[2] THEN a[2] - b[2] ELSE b[2] - a[2]
    IN  dlat + (IF dlon <= Deg360 - dlon THEN dlon ELSE Deg360 - dlon)

\* hp.query_disc(nside, vec, radius, nest, inclusive=False): the pixels
\* whose centre is in the disc; closed tells whether a centre at the very
\* radius is in it
query_disc(nside, vec, radius, nest, closed) ==
    {pix \in 0..(Nside2Npix(nside) - 1) :
        LET centre == PixelCentreTable[nside][IF nest THEN Nest2Ring(nside, pix) ELSE pix]
        IN  IF closed THEN Separation(centre, vec) <= radius
            ELSE Separation(centre, vec) < radius}

\* np.setxor1d
setxor1d(a, b) == (a \ b) \cup (b \ a)

RECURSIVE SumOver(_, _)
SumOver(data, pixels) ==
    IF pixels = {} THEN 0
    ELSE LET pix == CHOOSE q \in pixels : TRUE
         IN  data[pix] + SumOver(data, pixels \ {pix})

\* np.mean(data[pix]) as the sum and the number of the values, NaN for none
Mean(data, pixels) ==
    IF pixels = {} THEN [sum |-> NaN, n |-> 0]
    ELSE [sum |-> SumOver(data, pixels), n |-> Cardinality(pixels)]

\* wcs.all_pix2world(np.arange(shape_out + 1) - 0.5, 0)[0] of a linear
\* axis, crpix2 being twice CRPIX
RadialEdges(w, n) ==
    [k \in 1..(n + 1) |-> w.crval + (w.cdelt * (2 * k - 1 - w.crpix2)) \div 2]

\* wcs_helper.get_lonlat(coord, proj_sys): the position in the frame named
get_lonlat(coord, proj_sys) ==
    LET frame == equiv_celestial(proj_sys)
    IN  IF Raised(frame) THEN frame
        ELSE Return(transform_to(coord.frame, frame.val, coord.lon, coord.lat))

\* a_pix: the pixels of each pair of successive discs that are in one only
Annuli(i_pix) == [k \in 1..(Len(i_pix) - 1) |-> setxor1d(i_pix[k], i_pix[k + 1])]

\* hp_to_profile, std=False: the profile, with the discs and the annuli it
\* is made of
hp_to_profile(data, header, w, coord, n, closed) ==
    LET lonlat == get_lonlat(coord, header["COORDSYS"])
        r_edge == RadialEdges(w, n)
        nest == hp_is_nest(header)
        i_pix == [k \in 1..(n + 1) |->
                     query_disc(header["NSIDE"], lonlat.val, r_edge[k], nest.val, closed)]
        a_pix == Annuli(i_pix)
    IN  IF "COORDSYS" \notin DOMAIN header THEN Raise("KeyError")
        ELSE IF Raised(lonlat) THEN lonlat
        ELSE IF Raised(nest) THEN nest
        ELSE Return([profile |-> [k \in 1..n |-> Mean(data, a_pix[k])],
                     i_pix |-> i_pix, a_pix |-> a_pix])

ProfileHeaders ==
    UNION { [NSIDE : Nsides, ORDERING : {"RING", "nest", "spiral"},
             COORDSYS : {"G", "EQ", "ecliptic"}],
            [NSIDE : Nsides, ORDERING : {"RING"}] }

\* the axis of the radius: its first edge at the centre, or further out
RadialWcs == [crval : {0, 1, 2}, cdelt : {1, 2}, crpix2 : {1}]

\* the positions: the centre of a pixel, and next to a pole
ProfileCoords ==
    [frame : {"galactic", "icrs"}, lon : {0, 3}, lat : {0, Deg90 - 1}]

InitProfile ==
    /\ hp_header \in ProfileHeaders
    /\ hp_data = Ramp(Nside2Npix(hp_header["NSIDE"]))
    /\ wcs \in RadialWcs
    /\ shape_out \in 1..MaxBins
    /\ ctor_args \in [coord : ProfileCoords, closed : BOOLEAN]
    /\ out = NoCall
    /\ key_maps = <<>>
    /\ key_out = <<>>
    /\ self = None
    /\ ret = NoCall
    /\ calls = <<>>

CallHpToProfile ==
    /\ out = NoCall
    /\ out' = [op |-> "hp_to_profile",
               res |-> hp_to_profile(hp_data, hp_header, wcs, ctor_args.coord,
                                     shape_out, ctor_args.closed)]
    /\ UNCHANGED <<hp_header, hp_data, wcs, shape_out, keyVars, cutVars>>

NextProfile == CallHpToProfile

SpecProfile == InitProfile /\ [][NextProfile]_vars

(***************************************************************************)
(* The stack of the projections of a map at several positions: hp_stack.   *)
(***************************************************************************)
\* the most positions of a stack
MaxCentres == 2

\* a stack whose every projection is made on the grid of the first position
StackWcs_first(lonlats, pixsizes, index, shape, frame) ==
    [frame |-> frame, crval |-> lonlats[1],
     crpix |-> <<(shape[2] + 1) \div 2, (shape[1] + 1) \div 2>>,
     cdelt |-> pixsizes[1]]

\* _w in the turn index of the loop: the grid of build_wcs_cube less its
\* third axis, with crval and cdelt set to those of the position
StackWcs(lonlats, pixsizes, index, shape, frame) ==
    [frame |-> frame, crval |-> lonlats[index],
     crpix |-> <<(shape[2] + 1) \div 2, (shape[1] + 1) \div 2>>,
     cdelt |-> pixsizes[index]]

\* a projection of the stack made with the order given to hp_stack
StackProjection_ordered(data, header, w, shape, order) ==
    hp_to_wcs(data, header, w, shape, order)

\* hp_to_wcs(hp_hdu, _w, shape_out): the order is left at its default
StackProjection(data, header, w, shape, order) ==
    hp_to_wcs(data, header, w, shape, 0)

\* stacks += plane on one pixel: NaN if either is
AddPixel(a, b) == IF IsNaN(a) \/ IsNaN(b) THEN NaN ELSE a + b

RECURSIVE StackSum(_, _, _)
StackSum(planes, count, shape) ==
    IF count = 0 THEN [p \in Pixels(shape) |-> 0]
    ELSE [p \in Pixels(shape) |->
             AddPixel(StackSum(planes, count - 1, shape)[p], planes[count].val[p])]

\* stacks /= len(coords): the quotient as the sum and the divisor
StackMean(total, count) == [p \in DOMAIN total |-> [sum |-> total[p], n |-> count]]

\* the loop of hp_stack over the planes, an exception ending it
StackPlanes(planes, shape, keep) ==
    IF \E i \in DOMAIN planes : Raised(planes[i])
    THEN planes[CHOOSE i \in DOMAIN planes :
                    Raised(planes[i]) /\ \A j \in 1..(i - 1) : ~Raised(planes[j])]
    ELSE IF keep THEN Return([i \in DOMAIN planes |-> planes[i].val])
    ELSE Return(StackMean(StackSum(planes, Len(planes), shape), Len(planes)))

\* hp_stack; pixsize is a number (scalar), or a sequence of one number per
\* position (each)
hp_stack(data, header, coords, pixsize, shape, order, proj_sys, keep) ==
    LET frame == equiv_celestial(proj_sys)
        lonlats == [i \in DOMAIN coords |-> get_lonlat(coords[i], proj_sys).val]
        pixsizes == IF "scalar" \in DOMAIN pixsize
                    THEN [i \in DOMAIN coords |-> pixsize.scalar]
                    ELSE pixsize.each
    IN  IF Raised(frame) THEN frame
        ELSE IF coords = <<>> THEN Raise("IndexError")
        ELSE StackPlanes([i \in DOMAIN coords |->
                             StackProjection(data, header,
                                 StackWcs(lonlats, pixsizes, i, shape, frame.val),
                                 shape, order)],
                         shape, keep)

StackHeaders ==
    [NSIDE : Nsides, ORDERING : {"RING", "NESTED"}, COORDSYS : {"G", "C", "ecliptic"}]

\* the positions, all of one frame
StackCoords ==
    UNION {{[i \in DOMAIN l |-> [frame |-> f, lon |-> l[i][1], lat |-> l[i][2]]] :
               l \in UNION {[1..n -> Centres] : n \in 0..MaxCentres}} :
           f \in {"galactic", "icrs"}}

\* one pixel size per position: two, one, two, ...
StackPixsizes == [i \in 1..MaxCentres |-> 1 + (i % 2)]

InitStack ==
    /\ hp_header \in StackHeaders
    /\ hp_data = Ramp(Nside2Npix(hp_header["NSIDE"]))
    /\ wcs = None
    /\ shape_out \in {<<1, 1>>, <<2, 2>>}
    /\ ctor_args \in [coords : StackCoords, pixsize : {[scalar |-> 1], [each |-> StackPixsizes]},
                      order : SamplingOrders, proj_sys : {"GALACTIC", "EQ"},
                      keep : BOOLEAN]
    /\ out = NoCall
    /\ key_maps = <<>>
    /\ key_out = <<>>
    /\ self = None
    /\ ret = NoCall
    /\ calls = <<>>

CallHpStack ==
    /\ out = NoCall
    /\ out' = [op |-> "hp_stack",
               res |-> hp_stack(hp_data, hp_header, ctor_args.coords,
                                ctor_args.pixsize,
                                shape_out, ctor_args.order, ctor_args.proj_sys,
                                ctor_args.keep)]
    /\ UNCHANGED <<hp_header, hp_data, wcs, shape_out, keyVars, cutVars>>

NextStack == CallHpStack

SpecStack == InitStack /\ [][NextStack]_vars

(***************************************************************************)
(* The grouping key of two maps.                                           *)
(***************************************************************************)
InitKey ==
    /\ key_maps \in [1..2 -> {<<"file", "file", h>> : h \in Headers}]
    /\ key_out = <<>>
    /\ hp_header = None
    /\ hp_data = None
    /\ wcs = None
    /\ shape_out = None
    /\ out = NoCall
    /\ ctor_args = None
    /\ self = None
    /\ ret = NoCall
    /\ calls = <<>>

CallHpmapKey ==
    /\ key_out = <<>>
    /\ key_out' = [i \in 1..2 |-> hpmap_key(key_maps[i])]
    /\ UNCHANGED <<projVars, key_maps, cutVars>>

NextKey == CallHpmapKey

SpecKey == InitKey /\ [][NextKey]_vars

(***************************************************************************)
(* Properties of the projection of one map.                                *)
(***************************************************************************)
IpxReturned == out.op = "hp_to_wcs_ipx" /\ ~Raised(out.res)

\* <<lon, lat>> of pixel p of the grid, in the frame of the map
InMapFrame(w, header, p) ==
    LET c == wcs_pix2world(w, p[2], p[1], 0)
    IN  transform_to(w.frame, hp_celestial(header).val, c[1], c[2])

\* the pixel <<y, x>> of the grid that is its reference pixel
RefPixel(w) == <<w.crpix[2] - 1, w.crpix[1] - 1>>

\* C1: whenever hp_to_wcs_ipx returns, the index array has as many entries
\* as the mask has True entries, and every index i is a pixel of the map:
\* 0 <= i < 12 * NSIDE^2.
C1_IndexCountAndRange ==
    IpxReturned =>
        LET mask == out.res.val.mask
            ipix == out.res.val.ipix
        IN  /\ DOMAIN mask = Pixels(shape_out)
            /\ DOMAIN ipix = 1..Cardinality({p \in Pixels(shape_out) : mask[p]})
            /\ \A k \in DOMAIN ipix :
                   0 <= ipix[k] /\ ipix[k] < 12 * hp_header["NSIDE"] * hp_header["NSIDE"]

\* hp_to_wcs_ipx returned for a coarse map and a grid of which some pixels
\* but not all lie outside of the projected area
C1_Witness ==
    /\ IpxReturned
    /\ hp_header["NSIDE"] < NsideMax
    /\ \E p \in Pixels(shape_out) : out.res.val.mask[p]
    /\ \E p \in Pixels(shape_out) : ~out.res.val.mask[p]

InputLon == [p \in Pixels(shape_out) |-> wcs_pix2world(wcs, p[2], p[1], 0)[1]]
InputLat == [p \in Pixels(shape_out) |-> wcs_pix2world(wcs, p[2], p[1], 0)[2]]

\* the frame of the map and that of the grid are of the same family
EquivalentFrames ==
    \/ Lower(Get(hp_header, "COORDSYS")) \in VALID_GALACTIC /\ wcs.frame = "galactic"
    \/ Lower(Get(hp_header, "COORDSYS")) \in VALID_EQUATORIAL /\ wcs.frame = "icrs"

\* C3: when the frame of the map and the frame of the grid are equivalent,
\* rotate_frame returns the longitudes and latitudes it was given and does
\* no coordinate transform.
C3_FrameNoOp ==
    (out.op = "rotate_frame" /\ EquivalentFrames) =>
        /\ ~Raised(out.res)
        /\ out.res.val.alon = InputLon
        /\ out.res.val.alat = InputLat
        /\ ~out.res.val.converted

\* rotate_frame returned for a galactic grid and a map whose COORDSYS is
\* the synonym G
C3_Witness ==
    /\ out.op = "rotate_frame" /\ EquivalentFrames
    /\ hp_header["COORDSYS"] = "G"
    /\ Cardinality(Pixels(shape_out)) > 1

\* the same grid expressed in the other frame: its reference pixel is
\* centred on the same sky position
OtherFrame(frame) == IF frame = "galactic" THEN "icrs" ELSE "galactic"

SameGridIn(frame, w) ==
    IF frame = w.frame THEN w
    ELSE [w EXCEPT !.frame = frame,
                   !.crval = transform_to(w.frame, frame, w.crval[1], w.crval[2])]

\* the index hp_to_wcs_ipx gives for the reference pixel of grid w
RefIndex(header, w, shape) ==
    LET r == hp_to_wcs_ipx(header, w, shape).val
    IN  r.ipix[Rank(RefPixel(w), r.mask, shape)]

\* C4: the reference pixel of the grid, centred on a sky position, resolves
\* to the pixel of the map that holds this position in the frame of the
\* map, whichever of the two frames the grid is expressed in.
C4_FrameIndependentIndex ==
    (IpxReturned /\ RefPixel(wcs) \in Pixels(shape_out)) =>
        LET r == out.res.val
            mine == r.ipix[Rank(RefPixel(wcs), r.mask, shape_out)]
            m == InMapFrame(wcs, hp_header, RefPixel(wcs))
        IN  /\ r.mask[RefPixel(wcs)]
            /\ mine = Ang2Pix(hp_header["NSIDE"], Deg90 - m[2], m[1],
                              hp_is_nest(hp_header).val)
            /\ \A frame \in {"galactic", "icrs"} :
                   mine = RefIndex(hp_header, SameGridIn(frame, wcs), shape_out)

\* hp_to_wcs_ipx returned for a grid in another frame than the map, and the
\* index of the reference pixel is not the one of the untransformed
\* coordinates
C4_Witness ==
    /\ IpxReturned /\ RefPixel(wcs) \in Pixels(shape_out)
    /\ hp_celestial(hp_header).val # wcs.frame
    /\ out.res.val.ipix[Rank(RefPixel(wcs), out.res.val.mask, shape_out)]
           # Ang2Pix(hp_header["NSIDE"], Deg90 - wcs.crval[2], wcs.crval[1],
                     hp_is_nest(hp_header).val)

(***************************************************************************)
(* Properties of the grouping key.                                         *)
(***************************************************************************)
\* the pixelization descriptor of a header: resolution, ordering scheme
\* and sky frame
Descriptor(header) ==
    <<header["NSIDE"], hp_is_nest(header).val, hp_celestial(header).val>>

HasDescriptor(header) ==
    /\ ~Raised(hp_is_nest(header))
    /\ ~Raised(hp_celestial(header))

\* C5: two maps get the same key exactly when their descriptors are equal
\* field by field: same NSIDE, same ordering scheme however ORDERING spells
\* it, same sky frame.
C5_KeyIffDescriptor ==
    (key_out # <<>> /\ \A i \in 1..2 : HasDescriptor(key_maps[i][3])) =>
        /\ \A i \in 1..2 : ~Raised(key_out[i])
        /\ (key_out[1].val = key_out[2].val
               <=> Descriptor(key_maps[1][3]) = Descriptor(key_maps[2][3]))

(***************************************************************************)
(* Python lists and optional values: None and a list are both written as   *)
(* a record, so that they compare as Python compares them.                 *)
(***************************************************************************)
PyNone == [none |-> TRUE, items |-> <<>>]
PyList(items) == [none |-> FALSE, items |-> items]

\* bool(value) of a list or None
TruthyList(v) == ~v.none /\ v.items # <<>>

\* value in list
InList(v, list) == \E i \in DOMAIN list.items : list.items[i] = v

RECURSIVE Concat(_)
Concat(seqs) == IF seqs = <<>> THEN <<>> ELSE Head(seqs) \o Concat(Tail(seqs))

\* header.extend(opt) and header.append: the keys of both
Extend(header, opt) == header @@ opt

(***************************************************************************)
(* The healpix files on disk.                                              *)
(***************************************************************************)
\* the most maps a CutSky is given
MaxMaps == 3

FileHeaders ==
    [a |-> [NSIDE |-> 1, ORDERING |-> "RING", COORDSYS |-> "G"],
     b |-> [NSIDE |-> 1, ORDERING |-> "ring", COORDSYS |-> "Galactic"],
     c |-> [NSIDE |-> 1, ORDERING |-> "RING", COORDSYS |-> "G"],
     d |-> [NSIDE |-> NsideMax, ORDERING |-> "NESTED", COORDSYS |-> "C"],
     s |-> [NSIDE |-> 1, ORDERING |-> "spiral", COORDSYS |-> "G"],
     e |-> [NSIDE |-> 1, ORDERING |-> "RING", COORDSYS |-> "ecliptic"]]

FileDatas ==
    [a |-> Ramp(12),
     b |-> Uniform(12, 7),
     c |-> Uniform(12, 3),
     d |-> Ramp(Nside2Npix(NsideMax)),
     s |-> Uniform(12, 1),
     e |-> Uniform(12, 1)]

\* the file names: toto is the name of no file
Exists(filename) == filename \in DOMAIN FileHeaders

\* the options given with each file: its legend, and doContour for some
Opt(filename) ==
    IF filename = "b" THEN [legend |-> filename, doContour |-> TRUE]
    ELSE IF filename = "d" THEN [legend |-> filename, doContour |-> FALSE]
    ELSE [legend |-> filename]

(***************************************************************************)
(* hp_helper.py: the lists of maps.                                        *)
(***************************************************************************)
\* build_hpmap: the tuples (filename, map, header); in low memory the map
\* is the name of the file, not its data
build_hpmap(filenames, low_mem) ==
    IF \E i \in DOMAIN filenames : ~Exists(filenames[i])
    THEN Raise("IOError")
    ELSE Return([i \in DOMAIN filenames |->
                    <<filenames[i],
                      IF low_mem = TRUE
                      THEN [path |-> filenames[i]]
                      ELSE [data |-> FileDatas[filenames[i]]],
                      FileHeaders[filenames[i]]>>])

\* isinstance(i_map, str)
IsPath(i_map) == "path" \in DOMAIN i_map

\* gen_hpmap, one turn of its loop: what it does for one map, and the
\* record it yields
gen_hpmap_events(hp_map) ==
    IF IsPath(hp_map[2])
    THEN << <<"read", hp_map[1]>>, <<"yield", hp_map[1]>> >>
    ELSE << <<"yield", hp_map[1]>> >>

\* a gen_hpmap that yields a blank map for a path, the file left unread
gen_hpmap_record_unread(hp_map) ==
    <<hp_map[1],
      IF IsPath(hp_map[2]) THEN [p \in DOMAIN FileDatas[hp_map[2].path] |-> 0]
      ELSE hp_map[2].data,
      hp_map[3]>>

gen_hpmap_record(hp_map) ==
    <<hp_map[1],
      IF IsPath(hp_map[2]) THEN FileDatas[hp_map[2].path] ELSE hp_map[2].data,
      hp_map[3]>>

\* a grouping that lists the maps of a key last seen first
group_hpmap_reversed(hp_maps) ==
    LET keys == [i \in DOMAIN hp_maps |-> hpmap_key(hp_maps[i])]
        first == SelectSeq([i \in DOMAIN hp_maps |-> i],
                           LAMBDA i : \A j \in 1..(i - 1) : keys[j].val # keys[i].val)
        members(k) == SelectSeq([i \in DOMAIN hp_maps |-> Len(hp_maps) + 1 - i],
                                LAMBDA i : keys[i].val = k)
    IN  IF \E i \in DOMAIN hp_maps : Raised(keys[i])
        THEN Raise("ValueError")
        ELSE Return([g \in DOMAIN first |->
                        [key |-> keys[first[g]].val,
                         maps |-> [m \in DOMAIN members(keys[first[g]].val) |->
                                      hp_maps[members(keys[first[g]].val)[m]]]]])

\* group_hpmap: the maps of each key, the keys in the order they are first
\* seen, the maps of a key in the order of the list
group_hpmap(hp_maps) ==
    LET keys == [i \in DOMAIN hp_maps |-> hpmap_key(hp_maps[i])]
        first == SelectSeq([i \in DOMAIN hp_maps |-> i],
                           LAMBDA i : \A j \in 1..(i - 1) : keys[j].val # keys[i].val)
        members(k) == SelectSeq([i \in DOMAIN hp_maps |-> i],
                                LAMBDA i : keys[i].val = k)
    IN  IF \E i \in DOMAIN hp_maps : Raised(keys[i])
        THEN keys[CHOOSE i \in DOMAIN hp_maps :
                     /\ Raised(keys[i])
                     /\ \A j \in 1..(i - 1) : ~Raised(keys[j])]
        ELSE Return([g \in DOMAIN first |->
                        [key |-> keys[first[g]].val,
                         maps |-> [m \in DOMAIN members(keys[first[g]].val) |->
                                      hp_maps[members(keys[first[g]].val)[m]]]]])

(***************************************************************************)
(* cutsky.py                                                               *)
(***************************************************************************)
DEFAULT_coordframe == "galactic"
DEFAULT_ctype == "TAN"
\* the number of pixels of a side of the square patches
CutNpix == 2

\* a to_new_maps that keeps the legend only
to_new_maps_legend(maps) ==
    [i \in DOMAIN maps |-> <<maps[i][2].filename, [legend |-> maps[i][1]]>>]

\* to_new_maps: the old dictionary {legend: {filename, doContour}}, written
\* as the sequence of its items, to the list of (filename, options)
to_new_maps(maps) ==
    [i \in DOMAIN maps |->
        <<maps[i][2].filename,
          IF "doContour" \in DOMAIN maps[i][2]
          THEN [legend |-> maps[i][1], doContour |-> maps[i][2].doContour]
          ELSE [legend |-> maps[i][1]]>>]

\* CutSky.__init__: the instance, or the exception raised
CutSky_init(maps, npix, pixsize, ctype, low_mem) ==
    LET list == IF maps.kind = "dict" THEN to_new_maps(maps.items) ELSE maps.items
        filenames == [i \in DOMAIN list |-> list[i][1]]
        opts == [i \in DOMAIN list |-> list[i][2]]
        hp_map == build_hpmap(filenames, low_mem)
        extended == [i \in DOMAIN list |->
                        <<hp_map.val[i][1], hp_map.val[i][2],
                          Extend(hp_map.val[i][3], opts[i])>>]
        grouped == group_hpmap(extended)
    IN  IF maps.kind = "None" THEN Raise("FileNotFoundError")
        ELSE IF Raised(hp_map) THEN hp_map
        ELSE IF Raised(grouped) THEN grouped
        ELSE Return([alive |-> TRUE,
                     npix |-> npix, pixsize |-> pixsize, ctype |-> ctype,
                     maps |-> grouped.val,
                     maps_selection |-> PyNone,
                     cuts |-> PyNone,
                     lonlat |-> PyNone,
                     coordframe |-> DEFAULT_coordframe])

\* build_WCS: the grid of npix by npix pixels centred on the position
build_WCS(lonlat, pixsize, npix, proj_sys, proj_type) ==
    [frame |-> equiv_celestial(proj_sys).val,
     crval |-> <<lonlat[1], lonlat[2]>>,
     crpix |-> <<(npix + 1) \div 2, (npix + 1) \div 2>>,
     cdelt |-> pixsize]

\* w.to_header()
to_header(w) == [CRVAL1 |-> w.crval[1], CRVAL2 |-> w.crval[2], FRAME |-> w.frame]

\* a selection that skips no map
Selected_all(selection, legend) == TRUE

\* a selection that takes an empty list as a list that names no map
Selected_listed(selection, legend) == selection.none \/ InList(legend, selection)

\* the body of the loop of cut_fits over the maps of a group: the events of
\* one map and the cut made of it, if it is selected
Selected(selection, legend) == ~(TruthyList(selection) /\ ~InList(legend, selection))

CutOf(hp_map, w, npix, mask, ipix) ==
    LET rec == gen_hpmap_record(hp_map)
        iHeader == rec[3]
        legend == iHeader.legend
        patch == Filled([k \in DOMAIN ipix |-> rec[2][ipix[k]]], mask, <<npix, npix>>)
        header == Extend(to_header(w),
                         Extend([filename |-> rec[1], legend |-> legend],
                                IF "doContour" \in DOMAIN iHeader
                                THEN [doContour |-> iHeader.doContour]
                                ELSE <<>>))
    IN  [legend |-> legend, fits |-> [data |-> patch, header |-> header]]

MapEvents(hp_map, selection) ==
    gen_hpmap_events(hp_map)
    \o (IF Selected(selection, hp_map[3].legend)
        THEN << <<"cut", hp_map[3].legend>> >> ELSE <<>>)

\* the loop of cut_fits over the maps of a group, once the pixel mapping
\* ipx of the group is there
CutMaps(group, w, npix, selection, ipx) ==
    IF Raised(ipx)
    THEN [exc |-> ipx.exc, cuts |-> <<>>, log |-> << <<"ipx", group.key>> >>]
    ELSE [exc |-> "",
          cuts |-> LET chosen == SelectSeq(group.maps,
                                           LAMBDA m : Selected(selection, m[3].legend))
                   IN  [i \in DOMAIN chosen |->
                           CutOf(chosen[i], w, npix, ipx.val.mask, ipx.val.ipix)],
          log |-> << <<"ipx", group.key>> >>
                  \o Concat([i \in DOMAIN group.maps |->
                                MapEvents(group.maps[i], selection)])]

\* a loop that computes the pixel mapping again for every map of the group
CutGroup_each(group, w, npix, selection) ==
    LET one(m) == CutMaps([key |-> group.key, maps |-> <<m>>], w, npix, selection,
                          hp_to_wcs_ipx(m[3], w, <<npix, npix>>))
        all == [i \in DOMAIN group.maps |-> one(group.maps[i])]
    IN  IF \E i \in DOMAIN all : Raised(all[i])
        THEN [exc |-> "ValueError", cuts |-> <<>>,
              log |-> Concat([i \in DOMAIN all |-> all[i].log])]
        ELSE [exc |-> "",
              cuts |-> Concat([i \in DOMAIN all |-> all[i].cuts]),
              log |-> Concat([i \in DOMAIN all |-> all[i].log])]

\* the body of the loop of cut_fits over the groups: the pixel mapping of
\* the group from the header of its first map, then its maps
CutGroup(group, w, npix, selection) ==
    CutMaps(group, w, npix, selection,
            hp_to_wcs_ipx(group.maps[1][3], w, <<npix, npix>>))

\* cuts.append over the groups: nothing follows a group that raised, and
\* cuts then holds what the groups before it gave
JoinCuts(one, rest) ==
    IF Raised(one) THEN one
    ELSE [exc |-> rest.exc, cuts |-> one.cuts \o rest.cuts, log |-> one.log \o rest.log]

RECURSIVE CutGroups(_, _, _, _)
CutGroups(groups, w, npix, selection) ==
    IF groups = <<>> THEN [exc |-> "", cuts |-> <<>>, log |-> <<>>]
    ELSE JoinCuts(CutGroup(Head(groups), w, npix, selection),
                  CutGroups(Tail(groups), w, npix, selection))

\* an end of cut_fits that keeps the cuts made before a group raised
StoreCuts_partial(this, lonlat, coordframe, done) ==
    [self |-> [this EXCEPT !.lonlat = lonlat,
                           !.coordframe = coordframe,
                           !.cuts = PyList(done.cuts)],
     res |-> IF Raised(done) THEN Raise(done.exc) ELSE Return(done.cuts),
     log |-> done.log]

\* the end of cut_fits: the position and the cuts are kept on the instance
\* when no group raised
StoreCuts(this, lonlat, coordframe, done) ==
    IF Raised(done)
    THEN [self |-> this, res |-> Raise(done.exc), log |-> done.log]
    ELSE [self |-> [this EXCEPT !.lonlat = lonlat,
                                !.coordframe = coordframe,
                                !.cuts = PyList(done.cuts)],
          res |-> Return(done.cuts), log |-> done.log]

\* CutSky.cut_fits: the instance after the call, what the call returned or
\* raised, and the trace of the call
cut_fits(this, lonlat, coordframe, maps_selection) ==
    LET this1 == [this EXCEPT !.maps_selection = maps_selection]
        frame == equiv_celestial(coordframe)
        w == build_WCS(lonlat.items, this.pixsize, this.npix, coordframe, this.ctype)
    IN  IF Raised(frame)
        THEN [self |-> this1, res |-> frame, log |-> <<>>]
        ELSE StoreCuts(this1, lonlat, coordframe,
                       CutGroups(this.maps, w, this.npix, this1.maps_selection))

\* a cache that is never taken
PreviouslyCut_never(this, lonlat, coordframe, maps_selection) == FALSE

\* the condition on which cut_png and cut_phot take the previous cuts
PreviouslyCut(this, lonlat, coordframe, maps_selection) ==
    /\ this.lonlat = lonlat
    /\ this.coordframe = coordframe
    /\ this.maps_selection = maps_selection
    /\ TruthyList(this.cuts)

\* the cuts retrieved, or cut without the selection: the start of cut_png
\* and of cut_phot
RetrieveOrCut(this, lonlat, coordframe, maps_selection) ==
    IF PreviouslyCut(this, lonlat, coordframe, maps_selection)
    THEN [self |-> this, res |-> Return(this.cuts.items), log |-> <<>>]
    ELSE cut_fits(this, lonlat, coordframe, PyNone)

\* the png of a patch and the photometry of a patch
Png(cut) == [image |-> cut.fits.data]
Phot(cut) == [aperture_photometry |-> cut.fits.data]

\* cut['png'] = ... and cut['phot'] = ... on every cut of the list
WithPng(cuts) == [i \in DOMAIN cuts |-> Extend([png |-> Png(cuts[i])], cuts[i])]
WithPhot(cuts) == [i \in DOMAIN cuts |-> Extend([phot |-> Phot(cuts[i])], cuts[i])]

\* a plotting that adds the png to copies of the cuts, the instance keeping
\* its cuts as they were
Plotted_copy(got) ==
    IF Raised(got.res) THEN got
    ELSE IF got.res.val = <<>>
    THEN [self |-> got.self, res |-> Raise("IndexError"), log |-> got.log]
    ELSE [self |-> got.self, res |-> Return(WithPng(got.res.val)), log |-> got.log]

\* the plotting of cut_png: cuts[0] raises on an empty list; the cuts are
\* the dictionaries the instance keeps, so the png is added to them too
Plotted(got) ==
    IF Raised(got.res) THEN got
    ELSE IF got.res.val = <<>>
    THEN [self |-> got.self, res |-> Raise("IndexError"), log |-> got.log]
    ELSE [self |-> [got.self EXCEPT !.cuts = PyList(WithPng(got.res.val))],
          res |-> Return(WithPng(got.res.val)), log |-> got.log]

\* the photometry of cut_phot, added to the dictionaries as the png is
Measured(got) ==
    IF Raised(got.res) THEN got
    ELSE [self |-> [got.self EXCEPT !.cuts = PyList(WithPhot(got.res.val))],
          res |-> Return(WithPhot(got.res.val)), log |-> got.log]

\* CutSky.cut_png
cut_png(this, lonlat, coordframe, maps_selection) ==
    Plotted(RetrieveOrCut(this, lonlat, coordframe, maps_selection))

\* CutSky.cut_phot
cut_phot(this, lonlat, coordframe, maps_selection) ==
    Measured(RetrieveOrCut(this, lonlat, coordframe, maps_selection))

(***************************************************************************)
(* A CutSky instance: its construction, then any calls of cut_fits,        *)
(* cut_png and cut_phot.                                                   *)
(***************************************************************************)
\* the lists of at most n maps, no file twice
RECURSIVE ListsOf(_, _)
ListsOf(files, n) ==
    IF n = 0 THEN {<<>>}
    ELSE {<<>>} \cup
         UNION {{<<f>> \o l : l \in ListsOf(files \ {f}, n - 1)} : f \in files}

WithOpts(filenames) == [i \in DOMAIN filenames |-> <<filenames[i], Opt(filenames[i])>>]

MapsArgs ==
    {[kind |-> "None", items |-> <<>>]}
    \cup {[kind |-> "list", items |-> WithOpts(l)] :
             l \in ListsOf({"a", "c", "d", "s"}, MaxMaps) \cup {<<"toto">>, <<"e">>}}
    \cup {[kind |-> "dict",
           items |-> << <<"b", [filename |-> "b", doContour |-> TRUE]>>,
                        <<"a", [filename |-> "a"]>> >>]}

\* the centres of the cuts: at the equator and next to the north pole
CutCentres == {PyList(<<0, 0>>), PyList(<<3, Deg90 - 1>>)}
CutFrames == {"galactic", "fk5", "ecliptic"}
\* no selection, an empty one, and one that names two legends in an order
\* that is not the order of every list of maps
Selections == {PyNone, PyList(<<>>), PyList(<<"a", "d">>)}
\* the most method calls made on one instance
MaxCalls == 2

NoInstance == [alive |-> FALSE]

InitCut ==
    /\ ctor_args \in [maps : MapsArgs, low_mem : BOOLEAN]
    /\ self = NoInstance
    /\ ret = NoCall
    /\ calls = <<>>
    /\ hp_header = None
    /\ hp_data = None
    /\ wcs = None
    /\ shape_out = None
    /\ out = NoCall
    /\ key_maps = <<>>
    /\ key_out = <<>>

Construct ==
    /\ ~self.alive
    /\ ret = NoCall
    /\ LET made == CutSky_init(ctor_args.maps, CutNpix, 1, DEFAULT_ctype,
                               ctor_args.low_mem)
       IN  /\ self' = IF Raised(made) THEN NoInstance ELSE made.val
           /\ ret' = [op |-> "__init__", res |-> made]
    /\ UNCHANGED <<projVars, keyVars, ctor_args, calls>>

\* the call of a method: the instance it leaves and the record of the call
Called(op, lonlat, coordframe, maps_selection, done) ==
    /\ Len(calls) < MaxCalls
    /\ self' = done.self
    /\ ret' = [op |-> op, lonlat |-> lonlat, coordframe |-> coordframe,
               maps_selection |-> maps_selection,
               res |-> done.res, log |-> done.log]
    /\ calls' = Append(calls, ret')
    /\ UNCHANGED <<projVars, keyVars, ctor_args>>

CallCutFits ==
    \E lonlat \in CutCentres, coordframe \in CutFrames, maps_selection \in Selections :
        /\ self.alive
        /\ Called("cut_fits", lonlat, coordframe, maps_selection,
                  cut_fits(self, lonlat, coordframe, maps_selection))

CallCutPng ==
    \E lonlat \in CutCentres, coordframe \in CutFrames, maps_selection \in Selections :
        /\ self.alive
        /\ Called("cut_png", lonlat, coordframe, maps_selection,
                  cut_png(self, lonlat, coordframe, maps_selection))

CallCutPhot ==
    \E lonlat \in CutCentres, coordframe \in CutFrames, maps_selection \in Selections :
        /\ self.alive
        /\ Called("cut_phot", lonlat, coordframe, maps_selection,
                  cut_phot(self, lonlat, coordframe, maps_selection))

NextCut == Construct \/ CallCutFits \/ CallCutPng \/ CallCutPhot

SpecCut == InitCut /\ [][NextCut]_vars

(***************************************************************************)
(* The function cutsky, the old interface: one call builds an instance,    *)
(* calls cut_png and cut_phot on it and returns the result of cut_phot.    *)
(***************************************************************************)
\* result = cut_png(...) then result = cut_phot(...): the second result
JoinCalls(first, second) == [res |-> second.res, log |-> first.log \o second.log]

CutskyPhot(png, lonlat, coordframe) ==
    IF Raised(png.res) THEN [res |-> png.res, log |-> png.log]
    ELSE JoinCalls(png, cut_phot(png.self, lonlat, coordframe, PyNone))

CutskyPng(made, lonlat, coordframe) ==
    IF Raised(made) THEN [res |-> made, log |-> <<>>]
    ELSE CutskyPhot(cut_png(made.val, lonlat, coordframe, PyNone), lonlat, coordframe)

\* cutsky(lonlat, maps, patch, coordframe, ctype)
cutsky(lonlat, maps, patch, coordframe, ctype) ==
    IF lonlat.none THEN [res |-> Raise("ValueError"), log |-> <<>>]
    ELSE IF maps.kind = "None" THEN [res |-> Raise("FileNotFoundError"), log |-> <<>>]
    ELSE CutskyPng(CutSky_init(IF maps.kind = "dict"
                               THEN [kind |-> "list", items |-> to_new_maps(maps.items)]
                               ELSE maps,
                               patch[1], patch[2], ctype, FALSE),
                   lonlat, coordframe)

\* the arguments of one call: a missing lonlat and a missing maps are None
InitSky ==
    /\ ctor_args \in [lonlat : {PyNone} \cup CutCentres, maps : MapsArgs,
                      coordframe : CutFrames, low_mem : BOOLEAN]
    /\ self = NoInstance
    /\ ret = NoCall
    /\ calls = <<>>
    /\ hp_header = None
    /\ hp_data = None
    /\ wcs = None
    /\ shape_out = None
    /\ out = NoCall
    /\ key_maps = <<>>
    /\ key_out = <<>>

CallCutsky ==
    /\ ~self.alive
    /\ ret = NoCall
    /\ LET done == cutsky(ctor_args.lonlat, ctor_args.maps, <<CutNpix, 1>>,
                          ctor_args.coordframe, DEFAULT_ctype)
       IN  ret' = [op |-> "cutsky", res |-> done.res, log |-> done.log]
    /\ UNCHANGED <<projVars, keyVars, ctor_args, self, calls>>

NextSky == CallCutsky \/ Construct

SpecSky == InitSky /\ [][NextSky]_vars

(***************************************************************************)
(* The conversion of the old dictionary of maps by to_new_maps.            *)
(***************************************************************************)
\* the most keys of a dictionary
MaxKeys == 2

LegacyLegends == {"a", "b", "c"}
\* {'filename': ..., 'doContour': ...}, doContour being optional; two
\* legends may name the same file
LegacyEntries ==
    [filename : {"a", "b"}] \cup [filename : {"a", "b"}, doContour : BOOLEAN]

\* the dictionaries, each written as the sequence of its items in the order
\* of maps.keys(); the keys of a dictionary are distinct
LegacyDicts ==
    {[i \in DOMAIN keys |-> <<keys[i], entries[i]>>] :
        <<keys, entries>> \in
            {ke \in ListsOf(LegacyLegends, MaxKeys) \X
                    UNION {[1..n -> LegacyEntries] : n \in 0..MaxKeys} :
                Len(ke[1]) = Len(ke[2])}}

InitLegacy ==
    /\ ctor_args \in [maps : {[kind |-> "dict", items |-> d] : d \in LegacyDicts}]
    /\ self = NoInstance
    /\ ret = NoCall
    /\ calls = <<>>
    /\ hp_header = None
    /\ hp_data = None
    /\ wcs = None
    /\ shape_out = None
    /\ out = NoCall
    /\ key_maps = <<>>
    /\ key_out = <<>>

CallToNewMaps ==
    /\ ret = NoCall
    /\ ret' = [op |-> "to_new_maps", res |-> Return(to_new_maps(ctor_args.maps.items))]
    /\ UNCHANGED <<projVars, keyVars, ctor_args, self, calls>>

NextLegacy == CallToNewMaps

SpecLegacy == InitLegacy /\ [][NextLegacy]_vars

(***************************************************************************)
(* The generator gen_hpmap over the list made by build_hpmap: one action   *)
(* per next() of the generator, which runs one turn of its loop up to the  *)
(* yield, or leaves the loop and raises StopIteration.                     *)
(***************************************************************************)
\* a generator that keeps every map it has read
GenHeld_all(maps, pos) == {k \in 1..pos : IsPath(maps[k][2])}

\* the maps read from a file that the frame of the generator refers to
\* while it is suspended at the yield of turn pos: the loop variable i_map,
\* bound anew at every turn
GenHeld(maps, pos) == IF IsPath(maps[pos][2]) THEN {pos} ELSE {}

InitGen ==
    /\ ctor_args \in [filenames : ListsOf({"a", "c", "d", "s"}, MaxMaps) \cup {<<"toto">>},
                      low_mem : BOOLEAN]
    /\ self = NoInstance
    /\ ret = NoCall
    /\ calls = <<>>
    /\ hp_header = None
    /\ hp_data = None
    /\ wcs = None
    /\ shape_out = None
    /\ out = NoCall
    /\ key_maps = <<>>
    /\ key_out = <<>>

\* maps = build_hpmap(filenames, low_mem); gen = gen_hpmap(maps)
CallBuildHpmap ==
    /\ ~self.alive
    /\ ret = NoCall
    /\ LET built == build_hpmap(ctor_args.filenames, ctor_args.low_mem)
       IN  /\ ret' = [op |-> "build_hpmap", res |-> built]
           /\ self' = IF Raised(built) THEN NoInstance
                      ELSE [alive |-> TRUE, maps |-> built.val, pos |-> 1,
                            held |-> {}, done |-> FALSE]
    /\ UNCHANGED <<projVars, keyVars, ctor_args, calls>>

\* next(gen)
GenNext ==
    /\ self.alive
    /\ ~self.done
    /\ IF self.pos > Len(self.maps)
       THEN /\ self' = [self EXCEPT !.done = TRUE, !.held = {}]
            /\ ret' = [op |-> "next", res |-> Raise("StopIteration")]
            /\ calls' = calls
       ELSE /\ self' = [self EXCEPT !.pos = self.pos + 1,
                                    !.held = GenHeld(self.maps, self.pos)]
            /\ ret' = [op |-> "next",
                       res |-> Return(gen_hpmap_record(self.maps[self.pos]))]
            /\ calls' = calls \o gen_hpmap_events(self.maps[self.pos])
    /\ UNCHANGED <<projVars, keyVars, ctor_args>>

NextGen == CallBuildHpmap \/ GenNext

SpecGen == InitGen /\ [][NextGen]_vars

(***************************************************************************)
(* The command line of cutsky.py: parse_config, combine_args and main.     *)
(* args is the namespace made by parse_args, with the options given only;  *)
(* conf is the configuration file found, as the list of its sections.      *)
(***************************************************************************)
DEFAULT_npix == 256
DEFAULT_pixsize == 1

\* logging.DEBUG, logging.INFO, logging.ERROR
logging == [DEBUG |-> 10, INFO |-> 20, ERROR |-> 40]

\* dict.get(key), and the attribute of the namespace: None is written as
\* the falsy value of the type of the option
Value(dict, key, falsy) == IF key \in DOMAIN dict THEN dict[key] ELSE falsy

\* a or b or c: the first operand that is truthy, or the last
PyOr(a, b, c, falsy) ==
    IF a # falsy THEN a ELSE IF b # falsy THEN b ELSE c

\* the options of the section cutsky of the file
CutskyOptions(conf) ==
    IF \E i \in DOMAIN conf.sections : conf.sections[i].name = "cutsky"
    THEN conf.sections[CHOOSE i \in DOMAIN conf.sections :
                          conf.sections[i].name = "cutsky"].opts
    ELSE <<>>

\* options[key] = value if the test holds
Option(test, key, value) == IF test THEN key :> value ELSE <<>>

\* the verbosity of the file: a name of allowed_levels, or int(level), or
\* None, which config.get gives for a missing key too
ConfigVerbosity(level) ==
    LET allowed_levels == [verbose |-> logging.DEBUG, debug |-> logging.DEBUG,
                           quiet |-> logging.ERROR, error |-> logging.ERROR,
                           info |-> logging.INFO]
    IN  IF Lower(level) \in DOMAIN allowed_levels
        THEN "verbosity" :> allowed_levels[Lower(level)]
        ELSE IF level = "20" THEN "verbosity" :> 20
        ELSE <<>>

\* the test of parse_config on a section: it is listed in mapsToCut
ListedSection(section) ==
    /\ section.name # "cutsky"
    /\ "filename" \in DOMAIN section.opts
    /\ \/ ("doCut" \in DOMAIN section.opts /\ section.opts.doCut)
       \/ "doCut" \notin DOMAIN section.opts

parse_config(conf) ==
    LET cutsky_opts == CutskyOptions(conf)
        copied == [key \in DOMAIN cutsky_opts
                          \cap {"npix", "pixsize", "coordframe", "ctype", "outdir"}
                      |-> cutsky_opts[key]]
        listed == SelectSeq(conf.sections, ListedSection)
        mapsToCut == [i \in DOMAIN listed |->
                         <<listed[i].opts.filename,
                           Option("doContour" \in DOMAIN listed[i].opts, "doContour",
                                  Value(listed[i].opts, "doContour", FALSE))
                           @@ [legend |-> listed[i].name]>>]
    IN  IF ~conf.found THEN Raise("FileNotFoundError")
        ELSE Return(copied
                    @@ (IF "verbosity" \in DOMAIN cutsky_opts
                        THEN ConfigVerbosity(cutsky_opts.verbosity) ELSE <<>>)
                    @@ Option(Value(cutsky_opts, "fits", "") # "", "fits", TRUE)
                    @@ Option(Value(cutsky_opts, "png", "") # "", "png", TRUE)
                    @@ Option(Value(cutsky_opts, "votable", "") # "", "votable", TRUE)
                    @@ [maps |-> mapsToCut])

\* parsed_args.maps: the files named on the command line, each with the
\* legend made of its name
ArgsMaps(args) ==
    [i \in DOMAIN args.mapfilenames |->
        <<args.mapfilenames[i], [legend |-> args.mapfilenames[i]]>>]

\* an output selection that leaves png as it was asked for
PngOutput_asked(fits, png, votable) == png

\* if not (fits or png or votable): output['png'] = True
PngOutput(fits, png, votable) == png \/ ~(fits \/ png \/ votable)

\* combine_args; radius is in arcmin, as pixsize is
combine_args(args, config) ==
    LET pixsize == PyOr(Value(args, "pixsize", 0), Value(config, "pixsize", 0),
                        DEFAULT_pixsize, 0)
        coordframe == PyOr(Value(args, "coordframe", ""), Value(config, "coordframe", ""),
                           DEFAULT_coordframe, "")
        ctype == PyOr(Value(args, "ctype", ""), Value(config, "ctype", ""),
                      DEFAULT_ctype, "")
        verbosity == PyOr(Value(args, "verbosity", 0), Value(config, "verbosity", 0),
                          logging.INFO, 0)
        args_npix == IF Value(args, "radius", 0) # 0 THEN args.radius \div pixsize
                     ELSE Value(args, "npix", 0)
        npix == PyOr(args_npix, Value(config, "npix", 0), DEFAULT_npix, 0)
        maps == PyOr(ArgsMaps(args), Value(config, "maps", <<>>), <<>>, <<>>)
        fits == PyOr(args.fits, Value(config, "fits", FALSE), FALSE, FALSE)
        png == PyOr(args.png, Value(config, "png", FALSE), FALSE, FALSE)
        votable == PyOr(args.votable, Value(config, "votable", FALSE), FALSE, FALSE)
        outdir == PyOr(Value(args, "outdir", ""), Value(config, "outdir", ""), ".", "")
    IN  [npix |-> npix, pixsize |-> pixsize, coordframe |-> coordframe, ctype |-> ctype,
         maps |-> IF maps = <<>> THEN [kind |-> "None", items |-> <<>>]
                  ELSE [kind |-> "list", items |-> maps],
         output |-> [fits |-> fits, png |-> PngOutput(fits, png, votable),
                     votable |-> votable, outdir |-> outdir],
         verbosity |-> verbosity]

\* one of the three cuts of main, made if its output is asked for: results
\* is bound by the first cut that is made
MainCut(prev, enabled, done) ==
    IF Raised(prev.res) \/ ~enabled THEN prev
    ELSE [self |-> done.self, res |-> done.res, log |-> prev.log \o done.log,
          bound |-> TRUE]

\* the loop of main over results: the files written, <<outdir, legend,
\* extension>>
MainWrites(last, output) ==
    IF Raised(last.res) THEN [res |-> last.res, written |-> {}]
    ELSE IF ~last.bound THEN [res |-> Raise("UnboundLocalError"), written |-> {}]
    ELSE [res |-> Return(last.res.val),
          written |->
              {<<output.outdir, last.res.val[i].legend, "fits">> :
                  i \in {j \in DOMAIN last.res.val :
                            "fits" \in DOMAIN last.res.val[j] /\ output.fits}}
              \cup {<<output.outdir, last.res.val[i].legend, "png">> :
                  i \in {j \in DOMAIN last.res.val :
                            "png" \in DOMAIN last.res.val[j] /\ output.png}}
              \cup {<<output.outdir, last.res.val[i].legend, "xml">> :
                  i \in {j \in DOMAIN last.res.val :
                            "phot" \in DOMAIN last.res.val[j] /\ output.votable}}]

\* main, from the parsed command line on
MainPhot(prev, lonlat, opts) ==
    MainWrites(MainCut(prev, opts.output.votable,
                       cut_phot(prev.self, lonlat, opts.coordframe, PyNone)),
               opts.output)

MainPng(prev, lonlat, opts) ==
    MainPhot(MainCut(prev, opts.output.png,
                     cut_png(prev.self, lonlat, opts.coordframe, PyNone)),
             lonlat, opts)

MainFits(made, lonlat, opts) ==
    IF Raised(made) THEN [res |-> made, written |-> {}]
    ELSE MainPng(MainCut([self |-> made.val, res |-> Return(<<>>), log |-> <<>>,
                          bound |-> FALSE],
                         opts.output.fits,
                         cut_fits(made.val, lonlat, opts.coordframe, PyNone)),
                 lonlat, opts)

MainOpts(args, opts) ==
    MainFits(CutSky_init(opts.maps, opts.npix, opts.pixsize, opts.ctype, TRUE),
             PyList(<<args.lon, args.lat>>), opts)

MainConfig(parsed) == IF Raised(parsed) THEN <<>> ELSE parsed.val

main(args, conf) == MainOpts(args, combine_args(args, MainConfig(parse_config(conf))))

\* an option given or not
Given(key, values) == {<<>>} \cup {key :> v : v \in values}

\* the namespace of a command line that gives the position and one map
ArgsBase ==
    [lon |-> 0, lat |-> 0, fits |-> FALSE, png |-> FALSE, votable |-> FALSE,
     mapfilenames |-> <<"a">>]

CutskySection(opts) == [found |-> TRUE, sections |-> <<[name |-> "cutsky", opts |-> opts]>>]

\* the sections of maps a file may hold, and a section cutsky that has a
\* filename
MapSections ==
    {[name |-> "map 1", opts |-> [filename |-> "a", doCut |-> TRUE, doContour |-> TRUE]],
     [name |-> "map 2", opts |-> [filename |-> "c", doCut |-> FALSE]],
     [name |-> "map 3", opts |-> [filename |-> "d"]],
     [name |-> "map 4", opts |-> [doCut |-> TRUE]],
     [name |-> "cutsky", opts |-> [filename |-> "s"]]}

\* the most sections of a file
MaxSections == 2

\* the command lines and the files, which differ from ArgsBase and from
\* the file of an empty section cutsky in the options of one kind: the size of the patch, the frame
\* and the projection, the verbosity, the outputs, the maps
CliInputs ==
    ({a @@ b @@ ArgsBase :
         a \in Given("npix", {0, 2}) \cup {[radius |-> 1]}, b \in Given("pixsize", {0, 2})}
     \X {CutskySection(a @@ b) : a \in Given("npix", {0, 1}), b \in Given("pixsize", {1})})
    \cup
    ({a @@ b @@ ArgsBase : a \in Given("coordframe", {"fk5"}), b \in Given("ctype", {"SIN"})}
     \X {CutskySection(a @@ b) :
            a \in Given("coordframe", {"galactic", "fk5"}), b \in Given("ctype", {"TAN"})})
    \cup
    ({a @@ ArgsBase : a \in Given("verbosity", {logging.DEBUG, logging.ERROR})}
     \X {CutskySection(a) : a \in Given("verbosity", {"debug", "quiet", "aze", "20"})})
    \cup
    ({a @@ b @@ [npix |-> CutNpix] @@ ArgsBase :
         a \in [fits : BOOLEAN, png : BOOLEAN, votable : BOOLEAN],
         b \in Given("outdir", {"toto"})}
     \X {CutskySection(a @@ b @@ c @@ d) :
            a \in Given("fits", {"True"}), b \in Given("png", {"True"}),
            c \in Given("votable", {"True"}), d \in Given("outdir", {"conf"})})
    \cup
    ({a @@ [npix |-> CutNpix] @@ ArgsBase :
         a \in {[mapfilenames |-> <<>>], [mapfilenames |-> <<"c", "d">>]}}
     \X ({[found |-> FALSE, sections |-> <<>>]}
         \cup {[found |-> TRUE, sections |-> s] : s \in ListsOf(MapSections, MaxSections)}))

InitCli ==
    /\ ctor_args \in {[args |-> i[1], conf |-> i[2]] : i \in CliInputs}
    /\ self = NoInstance
    /\ ret = NoCall
    /\ calls = <<>>
    /\ hp_header = None
    /\ hp_data = None
    /\ wcs = None
    /\ shape_out = None
    /\ out = NoCall
    /\ key_maps = <<>>
    /\ key_out = <<>>

CallParseConfig ==
    /\ ret = NoCall
    /\ ret' = [op |-> "parse_config", res |-> parse_config(ctor_args.conf)]
    /\ UNCHANGED <<projVars, keyVars, ctor_args, self, calls>>

\* combine_args(args, config), config being the options of the file, or
\* {} as in main when there is no file
CallCombineArgs ==
    /\ ret = NoCall
    /\ ret' = [op |-> "combine_args",
               config |-> MainConfig(parse_config(ctor_args.conf)),
               res |-> Return(combine_args(ctor_args.args,
                                           MainConfig(parse_config(ctor_args.conf))))]
    /\ UNCHANGED <<projVars, keyVars, ctor_args, self, calls>>

\* main(argv), for the patches of CutNpix pixels at most
CallMain ==
    /\ ret = NoCall
    /\ combine_args(ctor_args.args, MainConfig(parse_config(ctor_args.conf))).npix <= CutNpix
    /\ ret' = [op |-> "main", done |-> main(ctor_args.args, ctor_args.conf)]
    /\ UNCHANGED <<projVars, keyVars, ctor_args, self, calls>>

NextCli == CallParseConfig \/ CallCombineArgs \/ CallMain

SpecCli == InitCli /\ [][NextCli]_vars

(***************************************************************************)
(* What is checked of the CutSky instance.                                 *)
(***************************************************************************)
\* the list of maps given to the constructor, as __init__ makes it before
\* it groups it: (filename, map, header with the options)
InputMaps ==
    LET list == IF ctor_args.maps.kind = "dict"
                THEN to_new_maps(ctor_args.maps.items) ELSE ctor_args.maps.items
        built == build_hpmap([i \in DOMAIN list |-> list[i][1]], ctor_args.low_mem).val
    IN  [i \in DOMAIN list |->
            <<built[i][1], built[i][2], Extend(built[i][3], list[i][2])>>]

\* the maps of the instance, group after group
GroupedMaps == Concat([g \in DOMAIN self.maps |-> self.maps[g].maps])

\* the place of a map in the list given to the constructor
InputIndex(hp_map) == CHOOSE i \in DOMAIN InputMaps : InputMaps[i] = hp_map

\* C6: grouping is a partition of the maps given to the constructor: as many
\* maps in the groups as were given, every given map exactly once in the
\* groups taken together, and the maps of a group in the order they were
\* given
C6_GroupingPartition ==
    self.alive =>
        /\ Len(GroupedMaps) = Len(InputMaps)
        /\ \A i \in DOMAIN InputMaps :
               Cardinality({k \in DOMAIN GroupedMaps : GroupedMaps[k] = InputMaps[i]}) = 1
        /\ \A g \in DOMAIN self.maps :
               \A m1, m2 \in DOMAIN self.maps[g].maps :
                   m1 < m2 => InputIndex(self.maps[g].maps[m1])
                                  < InputIndex(self.maps[g].maps[m2])

\* three maps in two groups, the second group holding the second and the
\* third map given
C6_Witness ==
    /\ self.alive
    /\ Len(InputMaps) = 3
    /\ Len(self.maps) = 2
    /\ self.maps[2].maps = <<InputMaps[2], InputMaps[3]>>

\* the places in the trace of a call where the pixel mapping is computed
IpxEvents(log) ==
    SelectSeq([i \in DOMAIN log |-> i], LAMBDA i : log[i][1] = "ipx")

\* the grid of a call
GridOf(call) ==
    build_WCS(call.lonlat.items, self.pixsize, self.npix, call.coordframe, self.ctype)

\* the group of the file of a cut
GroupOfFile(filename) ==
    CHOOSE g \in DOMAIN self.maps :
        \E m \in DOMAIN self.maps[g].maps : self.maps[g].maps[m][1] = filename

\* the patch that the pixel mapping of a group gives for the data of a file
SharedPatch(call, filename) ==
    LET ipx == hp_to_wcs_ipx(self.maps[GroupOfFile(filename)].maps[1][3],
                             GridOf(call), <<self.npix, self.npix>>).val
    IN  Filled([k \in DOMAIN ipx.ipix |-> FileDatas[filename][ipx.ipix[k]]],
               ipx.mask, <<self.npix, self.npix>>)

\* C7: a cut_fits call that returns has computed the pixel mapping once for
\* each group, in the order of the groups, before it read or took any map
\* of that group and after the maps of the group before; every cut is the
\* data of its map taken through the mapping of its group
C7_ResolverOncePerGroup ==
    (ret.op = "cut_fits" /\ ~Raised(ret.res)) =>
        LET at == IpxEvents(ret.log)
        IN  /\ Len(at) = Len(self.maps)
            /\ \A g \in DOMAIN self.maps :
                   /\ ret.log[at[g]] = <<"ipx", self.maps[g].key>>
                   /\ \A m \in DOMAIN self.maps[g].maps :
                          \A i \in DOMAIN ret.log :
                              (/\ ret.log[i][1] \in {"read", "yield", "cut"}
                               /\ ret.log[i][2] = self.maps[g].maps[m][1])
                              => /\ at[g] < i
                                 /\ g < Len(at) => i < at[g + 1]
            /\ \A c \in DOMAIN ret.res.val :
                   ret.res.val[c].fits.data
                       = SharedPatch(ret, ret.res.val[c].fits.header.filename)

\* a call on three maps in two groups, the maps read during the call
C7_Witness ==
    /\ ret.op = "cut_fits"
    /\ ~Raised(ret.res)
    /\ Len(GroupedMaps) = 3
    /\ Len(IpxEvents(ret.log)) = 2
    /\ Len(ret.res.val) = 3
    /\ \E i \in DOMAIN ret.log : ret.log[i][1] = "read"

\* the legends of a list of cuts
Legends(cuts) == [i \in DOMAIN cuts |-> cuts[i].legend]

\* the legends of the maps of the instance that a selection names, group
\* after group
LegendsIn(selection) ==
    LET named == SelectSeq(GroupedMaps, LAMBDA m : InList(m[3].legend, selection))
    IN  [i \in DOMAIN named |-> named[i][3].legend]

\* C8: a cut_fits call that returns gives, with a selection that is not
\* empty, one cut for each map that the selection names and no other, and with
\* no selection one cut for each map, in the order of the groups and of the
\* maps in each group
C8_SelectionFilter ==
    (ret.op = "cut_fits" /\ ~Raised(ret.res)) =>
        /\ TruthyList(ret.maps_selection)
               => Legends(ret.res.val) = LegendsIn(ret.maps_selection)
        /\ ret.maps_selection.none
               => Legends(ret.res.val) = [i \in DOMAIN GroupedMaps |->
                                             GroupedMaps[i][3].legend]

\* a selection that keeps two maps out of three, in the order of the groups,
\* which is not the order of the selection
C8_Witness ==
    /\ ret.op = "cut_fits"
    /\ ~Raised(ret.res)
    /\ ret.maps_selection = PyList(<<"a", "d">>)
    /\ Len(GroupedMaps) = 3
    /\ Legends(ret.res.val) = <<"d", "a">>

\* C9: cut_png and cut_phot with a selection that is not empty return only
\* cuts whose legend the selection names
C9_PngPhotSelection ==
    (/\ ret.op \in {"cut_png", "cut_phot"}
     /\ TruthyList(ret.maps_selection)
     /\ ~Raised(ret.res))
    => \A c \in DOMAIN ret.res.val : InList(ret.res.val[c].legend, ret.maps_selection)

\* the legend and the fits image of each cut of a list
LegendsAndFits(cuts) ==
    [i \in DOMAIN cuts |-> [legend |-> cuts[i].legend, fits |-> cuts[i].fits]]

\* a call with the arguments of the call before
SameArguments(first, second) ==
    /\ second.lonlat = first.lonlat
    /\ second.coordframe = first.coordframe
    /\ second.maps_selection = first.maps_selection

\* call n is a cut_png or cut_phot that follows a cut_fits of the same
\* arguments that returned cuts
FollowsCutFits(n) ==
    /\ calls[n - 1].op = "cut_fits"
    /\ ~Raised(calls[n - 1].res)
    /\ calls[n - 1].res.val # <<>>
    /\ calls[n].op \in {"cut_png", "cut_phot"}
    /\ SameArguments(calls[n - 1], calls[n])

\* C10: a cut_png or cut_phot that follows a cut_fits of the same centre,
\* frame and selection that returned cuts returns these cuts and computes
\* no pixel mapping and reads no map
C10_CacheHit ==
    \A n \in 2..Len(calls) :
        FollowsCutFits(n) =>
            /\ calls[n].log = <<>>
            /\ ~Raised(calls[n].res)
            /\ LegendsAndFits(calls[n].res.val) = LegendsAndFits(calls[n - 1].res.val)

\* a cut_png after a cut_fits with the same selection, on maps read from
\* their files
C10_Witness ==
    /\ Len(calls) = 2
    /\ FollowsCutFits(2)
    /\ calls[2].op = "cut_png"
    /\ TruthyList(calls[2].maps_selection)
    /\ ctor_args.low_mem
    /\ "png" \in DOMAIN calls[2].res.val[1]

\* the instance as the constructor makes it from the same arguments
FreshInstance ==
    CutSky_init(ctor_args.maps, CutNpix, 1, DEFAULT_ctype, ctor_args.low_mem).val

\* what cut_fits returns for the arguments of a call on a fresh instance
FreshCutFits(call) ==
    cut_fits(FreshInstance, call.lonlat, call.coordframe, call.maps_selection).res

\* C11: whatever calls were made before, a cut_png or cut_phot that returns
\* gives the legends and patches that cut_fits gives for the same centre,
\* frame and selection on a fresh instance over the same maps
C11_CacheIsAmortization ==
    \A n \in DOMAIN calls :
        (calls[n].op \in {"cut_png", "cut_phot"} /\ ~Raised(calls[n].res)) =>
            /\ ~Raised(FreshCutFits(calls[n]))
            /\ LegendsAndFits(calls[n].res.val)
                   = LegendsAndFits(FreshCutFits(calls[n]).val)

\* what cut_fits returns on a fresh instance for the centre, frame and
\* selection that the instance remembers
RememberedCutFits ==
    cut_fits(FreshInstance, self.lonlat, self.coordframe, self.maps_selection).res

\* C12: whenever the instance remembers cuts, the centre, frame and
\* selection it remembers are those the cuts were computed with: computing
\* with them gives the legends and patches of the remembered cuts
C12_RememberedArguments ==
    (self.alive /\ TruthyList(self.cuts)) =>
        /\ ~self.lonlat.none
        /\ ~Raised(RememberedCutFits)
        /\ LegendsAndFits(self.cuts.items) = LegendsAndFits(RememberedCutFits.val)

\* a cut_fits call that raised while it computed the pixel mapping of a
\* group
ResolverFailed(call) ==
    /\ call.op = "cut_fits"
    /\ Raised(call.res)
    /\ call.log # <<>>
    /\ call.log[Len(call.log)][1] = "ipx"

\* C13: a cut_fits call in which the pixel mapping of a group fails raises,
\* returns no list, and leaves the remembered cuts of the instance as they
\* were before the call, without the cuts made for the groups before
C13_NoPartialCuts ==
    [][ResolverFailed(ret') =>
           /\ "val" \notin DOMAIN ret'.res
           /\ self'.cuts = self.cuts]_vars

\* a call that raised at its second group after it made the cut of the
\* first
C13_Witness ==
    /\ ResolverFailed(ret)
    /\ Len(IpxEvents(ret.log)) = 2
    /\ \E i \in DOMAIN ret.log : ret.log[i][1] = "cut"

(***************************************************************************)
(* Errors of the projection of one map.                                    *)
(***************************************************************************)
\* C14: hp_to_wcs with a sampling order other than 0 and 1 raises
\* ValueError and returns no array
C14_UnsupportedOrder ==
    (out.op = "hp_to_wcs" /\ out.order \notin {0, 1}) =>
        /\ out.res.exc = "ValueError"
        /\ "val" \notin DOMAIN out.res

\* order 2 on a map that orders 0 and 1 project: nothing but the order
\* makes the call raise
C14_Witness ==
    /\ out.op = "hp_to_wcs"
    /\ out.order = 2
    /\ Raised(out.res)
    /\ ~Raised(hp_to_wcs(hp_data, hp_header, wcs, shape_out, 0))
    /\ ~Raised(hp_to_wcs(hp_data, hp_header, wcs, shape_out, 1))

\* the spellings of the two orderings, whatever the case of the letters
NestedSpellings == {"nested", "NESTED", "Nested", "nest", "NEST"}
RingSpellings == {"ring", "RING", "Ring"}

HasOrdering(spellings) ==
    "ORDERING" \in DOMAIN hp_header /\ hp_header["ORDERING"] \in spellings

\* C15: hp_is_nest returns True exactly for the spellings of nested and
\* nest, False exactly for the spellings of ring, and raises for a header
\* without ORDERING and for every other value
C15_IsNestExact ==
    out.op = "hp_is_nest" =>
        /\ HasOrdering(NestedSpellings) <=> (~Raised(out.res) /\ out.res.val = TRUE)
        /\ HasOrdering(RingSpellings) <=> (~Raised(out.res) /\ out.res.val = FALSE)
        /\ ~HasOrdering(NestedSpellings \cup RingSpellings)
               <=> (out.res.exc = "ValueError" /\ "val" \notin DOMAIN out.res)

\* upper case NESTED gives True
C15_Witness ==
    /\ out.op = "hp_is_nest"
    /\ HasOrdering({"NESTED"})
    /\ out.res = Return(TRUE)

\* a header without ORDERING raises
C15_WitnessMissing ==
    /\ out.op = "hp_is_nest"
    /\ "ORDERING" \notin DOMAIN hp_header
    /\ Raised(out.res)

\* the names of the three frame families as headers write them
GalacticSpellings == {"G", "g", "Galactic", "GALACTIC", "galactic"}
EquatorialSpellings == {"C", "EQ", "Equatorial", "celestial2000", "fk5", "icrs"}
EclipticSpellings == {"ecliptic", "ECLIPTIC", "e", "E"}

HasCoordsys(spellings) ==
    "COORDSYS" \in DOMAIN hp_header /\ hp_header["COORDSYS"] \in spellings

\* C16: hp_celestial raises for a header without COORDSYS and for every
\* spelling of the ecliptic family, and returns the Galactic frame for a
\* Galactic synonym and the equatorial frame for an Equatorial synonym
C16_CelestialFamilies ==
    out.op = "hp_celestial" =>
        /\ ("COORDSYS" \notin DOMAIN hp_header \/ HasCoordsys(EclipticSpellings))
               => (out.res.exc = "ValueError" /\ "val" \notin DOMAIN out.res)
        /\ HasCoordsys(GalacticSpellings) => out.res = Return("galactic")
        /\ HasCoordsys(EquatorialSpellings) => out.res = Return("icrs")

\* a header without COORDSYS raises
C16_Witness ==
    /\ out.op = "hp_celestial"
    /\ "COORDSYS" \notin DOMAIN hp_header
    /\ "ORDERING" \in DOMAIN hp_header
    /\ Raised(out.res)

\* upper case E raises while EQ gives the equatorial frame
C16_WitnessEcliptic ==
    /\ out.op = "hp_celestial"
    /\ HasCoordsys({"E"})
    /\ Raised(out.res)
    /\ hp_celestial([COORDSYS |-> "EQ"]) = Return("icrs")

NoMaps == ctor_args.maps.kind = "None"

\* the no-input error, raised before any map is read or cut
NoInputError(call) ==
    /\ call.res.exc = "FileNotFoundError"
    /\ "val" \notin DOMAIN call.res
    /\ ~self.alive
    /\ "log" \in DOMAIN call => call.log = <<>>

\* C17: cutsky called without maps, with or without the other arguments,
\* and CutSky constructed with maps=None, raise FileNotFoundError; no map
\* is read and no cut is produced
C17_NoMapsIsNoInput ==
    (NoMaps /\ ret.op \in {"cutsky", "__init__"}) => NoInputError(ret)

\* the same with a lonlat given to cutsky
C17_NoMapsWithLonlat ==
    (NoMaps /\ ret.op \in {"cutsky", "__init__"}
        /\ (ret.op = "cutsky" => ~ctor_args.lonlat.none)) => NoInputError(ret)

C17_WitnessCutsky == NoMaps /\ ret.op = "cutsky" /\ ~ctor_args.lonlat.none

C17_WitnessInit == NoMaps /\ ret.op = "__init__"

EmptyMaps == ctor_args.maps.kind = "list" /\ ctor_args.maps.items = <<>>

\* C18: CutSky constructed, or cutsky called, with an empty list of maps
\* raises the no-input error, before any cut is attempted
C18_EmptyMapsIsNoInput ==
    (EmptyMaps /\ ret.op \in {"cutsky", "__init__"}
        /\ (ret.op = "cutsky" => ~ctor_args.lonlat.none)) => NoInputError(ret)

\* what the empty list does: the constructor returns an instance without
\* maps, and cutsky fails in cut_png on the first of no cuts
C18_EmptyMapsOutcome ==
    (EmptyMaps /\ ret.op \in {"cutsky", "__init__"}
        /\ (ret.op = "cutsky" => ~ctor_args.lonlat.none)) =>
        IF ret.op = "__init__"
        THEN ~Raised(ret.res) /\ self.alive /\ self.maps = <<>>
        ELSE ret.res.exc \in {"IndexError", "ValueError"}

\* the tuples of the list that carry the legend
TuplesOf(new_maps, legend) == {j \in DOMAIN new_maps : new_maps[j][2].legend = legend}

\* C19: to_new_maps outputs, for every legend key of the dictionary,
\* exactly one tuple (filename, options) whose options carry the legend
\* and carry doContour with the same value exactly when the entry had it;
\* there is one tuple per key and the legends are distinct
C19_ToNewMapsLossless ==
    ret.op = "to_new_maps" =>
        LET old == ctor_args.maps.items
            new == ret.res.val
        IN  /\ Len(new) = Len(old)
            /\ \A i \in DOMAIN old :
                  /\ Cardinality(TuplesOf(new, old[i][1])) = 1
                  /\ \A j \in TuplesOf(new, old[i][1]) :
                        /\ new[j][1] = old[i][2].filename
                        /\ DOMAIN new[j][2] \subseteq {"legend", "doContour"}
                        /\ "doContour" \in DOMAIN new[j][2] <=> "doContour" \in DOMAIN old[i][2]
                        /\ "doContour" \in DOMAIN old[i][2] =>
                               new[j][2].doContour = old[i][2].doContour
            /\ \A i, j \in DOMAIN new : new[i][2].legend = new[j][2].legend => i = j

\* two keys that name the same file, one with doContour False and one
\* without doContour
C19_Witness ==
    /\ ret.op = "to_new_maps"
    /\ Len(ret.res.val) = 2
    /\ ret.res.val[1][1] = ret.res.val[2][1]
    /\ "doContour" \in DOMAIN ret.res.val[1][2]
    /\ ret.res.val[1][2].doContour = FALSE
    /\ "doContour" \notin DOMAIN ret.res.val[2][2]

\* the instance built from the same maps with the other value of low_mem
TwinInstance ==
    CutSky_init(ctor_args.maps, CutNpix, 1, DEFAULT_ctype, ~ctor_args.low_mem).val

\* the method of a recorded call, called with its arguments on an instance
ApplyCall(this, call) ==
    CASE call.op = "cut_fits" ->
             cut_fits(this, call.lonlat, call.coordframe, call.maps_selection)
      [] call.op = "cut_png" ->
             cut_png(this, call.lonlat, call.coordframe, call.maps_selection)
      [] call.op = "cut_phot" ->
             cut_phot(this, call.lonlat, call.coordframe, call.maps_selection)

\* the twin after the first n calls made on the instance
RECURSIVE TwinAfter(_)
TwinAfter(n) ==
    IF n = 0 THEN TwinInstance ELSE ApplyCall(TwinAfter(n - 1), calls[n]).self

TwinResult(n) == ApplyCall(TwinAfter(n - 1), calls[n]).res

\* the same list of cuts returned, or the same error raised
SameOutcome(mine, twin) ==
    IF Raised(mine) THEN twin = mine
    ELSE ~Raised(twin) /\ twin.val = mine.val

\* C20: an instance built with low_mem=True and one built with
\* low_mem=False, given the same calls, return cut lists with the same
\* legends in the same order and equal patches, or raise the same error
C20_LowMemSameResult ==
    calls # <<>> => SameOutcome(calls[Len(calls)].res, TwinResult(Len(calls)))

\* a low-memory instance that reads two files or more in its second call
\* and returns their cuts
C20_Witness ==
    /\ ctor_args.low_mem
    /\ Len(calls) = 2
    /\ ret.op = "cut_fits"
    /\ ~Raised(ret.res)
    /\ Len(ret.res.val) >= 2
    /\ Cardinality({i \in DOMAIN ret.log : ret.log[i][1] = "read"}) >= 2
    /\ ret.res.val[1].fits.data # ret.res.val[2].fits.data

\* the records yielded so far by the generator
Yielded == self.pos - 1

\* C21: in low memory build_hpmap reads no data, every slot holding the
\* name of the file; gen_hpmap yields one record per map in input order
\* and then stops, reads the file of map k in the turn that yields record
\* k and not before record k-1 is yielded, and holds one read map at most
C21_LazySinglePass ==
    self.alive =>
        /\ Len(self.maps) = Len(ctor_args.filenames)
        /\ ctor_args.low_mem =>
              \A k \in DOMAIN self.maps : self.maps[k][2] = [path |-> ctor_args.filenames[k]]
        /\ ret.op = "build_hpmap" => calls = <<>>
        /\ Yielded <= Len(self.maps)
        /\ self.done => Yielded = Len(self.maps) /\ Raised(ret.res)
        /\ (ret.op = "next" /\ ~Raised(ret.res)) =>
              /\ ret.res.val[1] = ctor_args.filenames[Yielded]
              /\ ret.res.val[2] = FileDatas[ctor_args.filenames[Yielded]]
        /\ IF ctor_args.low_mem
           THEN /\ Len(calls) = 2 * Yielded
                /\ \A k \in 1..Yielded :
                      /\ calls[2 * k - 1] = <<"read", ctor_args.filenames[k]>>
                      /\ calls[2 * k] = <<"yield", ctor_args.filenames[k]>>
           ELSE calls = [k \in 1..Yielded |-> <<"yield", ctor_args.filenames[k]>>]
        /\ Cardinality(self.held) <= 1

\* three files read one after the other, the generator exhausted
C21_Witness ==
    /\ self.alive
    /\ ctor_args.low_mem
    /\ self.done
    /\ Len(self.maps) = 3
    /\ Len(calls) = 6

\* the second of three files read and held, the third not read yet
C21_WitnessHeld ==
    /\ self.alive
    /\ ctor_args.low_mem
    /\ Len(self.maps) = 3
    /\ self.held = {2}

\* the legends of the maps given to cutsky, a list or a dictionary
GivenLegends ==
    IF ctor_args.maps.kind = "dict"
    THEN [i \in DOMAIN ctor_args.maps.items |-> ctor_args.maps.items[i][1]]
    ELSE [i \in DOMAIN ctor_args.maps.items |-> ctor_args.maps.items[i][2].legend]

\* C22: every record of the list returned by cutsky has the four keys
\* legend, fits, png and phot, and the list has one record per input map
C22_CutskyRecords ==
    (ret.op = "cutsky" /\ ~Raised(ret.res)) =>
        /\ Len(ret.res.val) = Len(GivenLegends)
        /\ \A i \in DOMAIN GivenLegends :
              Cardinality({c \in DOMAIN ret.res.val :
                              ret.res.val[c].legend = GivenLegends[i]}) = 1
        /\ \A c \in DOMAIN ret.res.val :
              {"legend", "fits", "png", "phot"} \subseteq DOMAIN ret.res.val[c]

\* three maps of two groups cut by one call of cutsky
C22_Witness ==
    /\ ret.op = "cutsky"
    /\ ~Raised(ret.res)
    /\ Len(ret.res.val) = 3
    /\ Len(IpxEvents(ret.log)) = 2

RECURSIVE CountUpTo(_, _)
CountUpTo(a_pix, k) ==
    IF k = 0 THEN 0 ELSE Cardinality(a_pix[k]) + CountUpTo(a_pix, k - 1)

\* C23: the pixel sets of the bins of hp_to_profile are pairwise disjoint,
\* bin k is the pixels of the outer disc of its edges that are not in the
\* inner one, and the pixel counts of the bins add up to the pixel count
\* of the outermost disc
C23_AnnuliPartition ==
    (out.op = "hp_to_profile" /\ ~Raised(out.res)) =>
        LET a_pix == out.res.val.a_pix
            i_pix == out.res.val.i_pix
        IN  /\ \A j, k \in DOMAIN a_pix : j # k => a_pix[j] \cap a_pix[k] = {}
            /\ \A k \in DOMAIN a_pix : a_pix[k] = i_pix[k + 1] \ i_pix[k]
            /\ CountUpTo(a_pix, Len(a_pix)) = Cardinality(i_pix[Len(i_pix)])

\* the same of the profiles whose innermost disc holds no pixel
C23_PartitionFromEmptyCentre ==
    (out.op = "hp_to_profile" /\ ~Raised(out.res) /\ out.res.val.i_pix[1] = {}) =>
        C23_AnnuliPartition

\* what holds of every profile: disjoint bins, each the outer disc less the
\* inner one, that cover the outermost disc less the innermost one
C23_AnnuliBetweenEdges ==
    (out.op = "hp_to_profile" /\ ~Raised(out.res)) =>
        LET a_pix == out.res.val.a_pix
            i_pix == out.res.val.i_pix
        IN  /\ \A j, k \in DOMAIN a_pix : j # k => a_pix[j] \cap a_pix[k] = {}
            /\ \A k \in DOMAIN a_pix : a_pix[k] = i_pix[k + 1] \ i_pix[k]
            /\ UNION {a_pix[k] : k \in DOMAIN a_pix} = i_pix[Len(i_pix)] \ i_pix[1]

\* three bins that are not empty around an empty innermost disc
C23_Witness ==
    /\ out.op = "hp_to_profile"
    /\ ~Raised(out.res)
    /\ shape_out = 3
    /\ out.res.val.i_pix[1] = {}
    /\ \A k \in 1..3 : out.res.val.a_pix[k] # {}

\* a profile whose first edge is further out than the centres of two pixels
\* at least, a centre at the very radius counting or not
C23_WitnessGap ==
    /\ out.op = "hp_to_profile"
    /\ ~Raised(out.res)
    /\ ~ctor_args.closed
    /\ wcs.crval = 2
    /\ Cardinality(out.res.val.i_pix[1]) >= 2
    /\ UNION {out.res.val.a_pix[k] : k \in DOMAIN out.res.val.a_pix}
           # out.res.val.i_pix[shape_out + 1]

\* the position i of the stack in the frame of the projection
CentreOf(i) ==
    transform_to(ctor_args.coords[i].frame,
                 IF ctor_args.proj_sys = "GALACTIC" THEN "galactic" ELSE "icrs",
                 ctor_args.coords[i].lon, ctor_args.coords[i].lat)

\* the pixel size of position i
PixsizeOf(i) ==
    IF "scalar" \in DOMAIN ctor_args.pixsize THEN ctor_args.pixsize.scalar
    ELSE ctor_args.pixsize.each[i]

\* the nearest-neighbour projection of the map on the grid of shape_out
\* centred on position i with its pixel size
ProjectionAt(i) ==
    hp_to_wcs(hp_data, hp_header,
              build_WCS(CentreOf(i), PixsizeOf(i), shape_out[1], ctor_args.proj_sys, "TAN"),
              shape_out, 0).val

\* the sum of the projections at the first count positions on pixel p
RECURSIVE SumAt(_, _)
SumAt(p, count) ==
    IF count = 0 THEN 0
    ELSE IF IsNaN(SumAt(p, count - 1)) \/ IsNaN(ProjectionAt(count)[p]) THEN NaN
    ELSE SumAt(p, count - 1) + ProjectionAt(count)[p]

\* C24: hp_stack over N positions returns, with keep=False, the pixel-wise
\* sum of the N projections divided by N and, with keep=True, N planes of
\* shape shape_out, plane i being the projection at position i with its
\* own sky reference and pixel size
C24_StackOfProjections ==
    (out.op = "hp_stack" /\ ~Raised(out.res)) =>
        LET N == Len(ctor_args.coords)
        IN  IF ctor_args.keep
            THEN /\ Len(out.res.val) = N
                 /\ \A i \in 1..N :
                       /\ DOMAIN out.res.val[i] = Pixels(shape_out)
                       /\ out.res.val[i] = ProjectionAt(i)
            ELSE /\ DOMAIN out.res.val = Pixels(shape_out)
                 /\ \A p \in Pixels(shape_out) :
                       out.res.val[p] = [sum |-> SumAt(p, N), n |-> N]

\* two positions with two pixel sizes whose projections differ, kept
C24_Witness ==
    /\ out.op = "hp_stack"
    /\ ~Raised(out.res)
    /\ ctor_args.keep
    /\ Len(ctor_args.coords) = 2
    /\ "each" \in DOMAIN ctor_args.pixsize
    /\ shape_out = <<2, 2>>
    /\ out.res.val[1] # out.res.val[2]

\* the mean of two projections that differ, no pixel of them NaN
C24_WitnessMean ==
    /\ out.op = "hp_stack"
    /\ ~Raised(out.res)
    /\ ~ctor_args.keep
    /\ Len(ctor_args.coords) = 2
    /\ ProjectionAt(1) # ProjectionAt(2)
    /\ \A p \in Pixels(shape_out) : ~IsNaN(out.res.val[p].sum)

\* the call of hp_stack made again with another order
StackWithOrder(order) ==
    hp_stack(hp_data, hp_header, ctor_args.coords, ctor_args.pixsize, shape_out,
             order, ctor_args.proj_sys, ctor_args.keep)

\* C30: the result of hp_stack does not depend on its order argument: the
\* calls that differ only in order return the same array or raise the same
\* error, and no error comes from an order that hp_to_wcs does not support
C30_StackIgnoresOrder ==
    out.op = "hp_stack" =>
        /\ \A order \in SamplingOrders : StackWithOrder(order) = out.res
        /\ (~Raised(out.res) /\ ctor_args.keep) =>
              \A i \in DOMAIN out.res.val : out.res.val[i] = ProjectionAt(i)

\* an order that hp_to_wcs rejects, on a stack that bilinear sampling would
\* make differ
C30_Witness ==
    /\ out.op = "hp_stack"
    /\ ctor_args.order = 2
    /\ ~Raised(out.res)
    /\ ctor_args.keep
    /\ Len(ctor_args.coords) = 2
    /\ \E i \in 1..2 :
          LET w == build_WCS(CentreOf(i), PixsizeOf(i), shape_out[1], ctor_args.proj_sys, "TAN")
          IN  /\ ~Raised(hp_to_wcs(hp_data, hp_header, w, shape_out, 1))
              /\ hp_to_wcs(hp_data, hp_header, w, shape_out, 1).val # out.res.val[i]

(***************************************************************************)
(* What is checked of the command line.                                    *)
(***************************************************************************)

\* the value of an option by precedence: the command line, then the file,
\* then the default
Resolved(args, config, key, default) ==
    IF key \in DOMAIN args THEN args[key]
    ELSE IF key \in DOMAIN config THEN config[key]
    ELSE default

C27_ListedOnlyWithDoCut ==
    (ret.op = "parse_config" /\ ~Raised(ret.res)) =>
        [i \in DOMAIN ret.res.val.maps |-> ret.res.val.maps[i][2].legend]
            = LET wanted(section) ==
                      /\ section.name # "cutsky"
                      /\ "filename" \in DOMAIN section.opts
                      /\ "doCut" \in DOMAIN section.opts
                      /\ section.opts.doCut
                  kept == SelectSeq(ctor_args.conf.sections, wanted)
              IN  [i \in DOMAIN kept |-> kept[i].name]

\* no output is asked for, on the command line or in the file
NoneRequested ==
    /\ ~(ctor_args.args.fits \/ ctor_args.args.png \/ ctor_args.args.votable)
    /\ {"fits", "png", "votable"} \cap DOMAIN MainConfig(parse_config(ctor_args.conf)) = {}

\* C26: the output selection of combine_args enables at least one of fits,
\* png and votable, and png alone when none is asked for on the command
\* line or in the configuration; so main always has a result list to loop
\* over (one of its cuts is made) and, when none is asked for, what it
\* writes is one png per result and no fits or votable file
C26_SomeOutputPngByDefault ==
    /\ ret.op = "combine_args" =>
           /\ \/ ret.res.val.output.fits
              \/ ret.res.val.output.png
              \/ ret.res.val.output.votable
           /\ NoneRequested =>
                  /\ ret.res.val.output.png
                  /\ ~ret.res.val.output.fits
                  /\ ~ret.res.val.output.votable
    /\ ret.op = "main" =>
           /\ ret.done.res.exc # "UnboundLocalError"
           /\ (NoneRequested /\ ~Raised(ret.done.res)) =>
                  ret.done.written
                      = {<<Resolved(ctor_args.args, MainConfig(parse_config(ctor_args.conf)),
                                    "outdir", "."),
                           ret.done.res.val[i].legend, "png">> :
                             i \in DOMAIN ret.done.res.val}

\* main has written the png of a map when no output was asked for
C26_Witness ==
    /\ ret.op = "main"
    /\ NoneRequested
    /\ ~Raised(ret.done.res)
    /\ ret.done.written # {}

\* combine_args has enabled png alone when no output was asked for
C26_WitnessCombine ==
    /\ ret.op = "combine_args"
    /\ NoneRequested
    /\ ret.res.val.output = [fits |-> FALSE, png |-> TRUE, votable |-> FALSE, outdir |-> "."]

(***************************************************************************)
(* The two ways to a projection: hp_to_wcs, and the mask and the indices   *)
(* of hp_to_wcs_ipx applied to the data.                                   *)
(***************************************************************************)
\* proj_map = np.ma.array(np.zeros(shape_out), mask=~mask, fill_value=np.nan)
\* proj_map[mask] = healpix_map[ipix], on what hp_to_wcs_ipx returned
ProjectedFromIpx(data, ipx, shape) ==
    IF Raised(ipx) THEN ipx
    ELSE IF \E k \in DOMAIN ipx.val.ipix : ipx.val.ipix[k] \notin DOMAIN data
    THEN Raise("IndexError")
    ELSE Return(Filled([k \in DOMAIN ipx.val.ipix |-> data[ipx.val.ipix[k]]],
                       ipx.val.mask, shape))

\* the data array has the pixels of the NSIDE of the header
HeaderOfData == Cardinality(DOMAIN hp_data) = Nside2Npix(hp_header["NSIDE"])

\* C28 as stated: for every data array, header and grid, hp_to_wcs with
\* order 0 ends as the array built from the mask and the indices of
\* hp_to_wcs_ipx does: NaN where the mask is false, data[ipix] where true
C28_SameAsIpxAnyHeader ==
    (out.op = "hp_to_wcs" /\ out.order = 0) =>
        out.res = ProjectedFromIpx(hp_data, hp_to_wcs_ipx(hp_header, wcs, shape_out),
                                   shape_out)

\* C28, amended: for every data array, header whose NSIDE is that of the
\* length of the data array, and grid, hp_to_wcs with order 0 ends as the
\* array built from the mask and the indices of hp_to_wcs_ipx does: NaN
\* where the mask is false, data[ipix] where true, or the same exception
C28_SameAsIpx ==
    (out.op = "hp_to_wcs" /\ out.order = 0 /\ HeaderOfData) =>
        out.res = ProjectedFromIpx(hp_data, hp_to_wcs_ipx(hp_header, wcs, shape_out),
                                   shape_out)

\* hp_to_wcs returned the projection of a NESTED map whose every pixel
\* differs, with pixels in and out of the projected area
C28_Witness ==
    /\ out.op = "hp_to_wcs" /\ out.order = 0 /\ HeaderOfData
    /\ ~Raised(out.res)
    /\ hp_data = Ramp(Nside2Npix(NsideMax))
    /\ hp_is_nest(hp_header).val
    /\ \E p \in Pixels(shape_out) : IsNaN(out.res.val[p])
    /\ \E p \in Pixels(shape_out) : ~IsNaN(out.res.val[p])

\* both ways returned a projection, and not the same one, for a header
\* whose NSIDE is not that of the data array
C28_WitnessOtherNside ==
    /\ out.op = "hp_to_wcs" /\ out.order = 0 /\ ~HeaderOfData
    /\ ~Raised(out.res)
    /\ ~Raised(ProjectedFromIpx(hp_data, hp_to_wcs_ipx(hp_header, wcs, shape_out),
                                shape_out))
    /\ out.res # ProjectedFromIpx(hp_data, hp_to_wcs_ipx(hp_header, wcs, shape_out),
                                  shape_out)

\* C29: a cut_fits call whose maps_selection is an empty list ends as the
\* call without a selection does: it returns one cut for each map of each
\* group, the cuts of the call with maps_selection None, or raises as it does
C29_EmptySelectionIsNone ==
    (ret.op = "cut_fits" /\ ret.maps_selection = PyList(<<>>)) =>
        /\ ret.res = cut_fits(self, ret.lonlat, ret.coordframe, PyNone).res
        /\ ret.log = cut_fits(self, ret.lonlat, ret.coordframe, PyNone).log
        /\ ~Raised(ret.res) =>
               Legends(ret.res.val) = [i \in DOMAIN GroupedMaps |->
                                          GroupedMaps[i][3].legend]

\* cut_fits returned the cuts of three maps of two groups for an empty list
C29_Witness ==
    /\ ret.op = "cut_fits"
    /\ ret.maps_selection = PyList(<<>>)
    /\ ~Raised(ret.res)
    /\ Len(ret.res.val) = 3
    /\ Legends(ret.res.val) = <<"d", "a", "c">>

====
